---- MODULE Spec2Model ----
(***************************************************************************)
(* A model of GearClaw: the session stores, the gateway request path, the  *)
(* tool executors and the agent's tool loop.                               *)
(*                                                                         *)
(* Text is a sequence of one-character strings.  The token LongRun stands  *)
(* for a run of RunLen letters 'a', so that identifiers around the         *)
(* 128-character limit are short sequences.                                *)
(***************************************************************************)
EXTENDS Integers, Sequences, FiniteSets, TLC

VARIABLES
    files,          \* session files on disk: resolved path -> id stored in the file
    storeOp,        \* the last session-store call and its outcome
    tokens,         \* gateway token table: token -> [last_used]
    allowUnauth,    \* GatewayConfig.allow_unauthenticated_requests
    agentSet,       \* whether MethodHandlers holds an agent
    conn,           \* the gateway connection's request in progress
    resp,           \* the response frame sent for it
    securityLevel,  \* ToolExecutor.security_level
    cwd,            \* Session.cwd
    execOp,         \* the last exec call and its result
    host,           \* what the tools have written below the root, and how the processes they start fare
    session,        \* Session.messages of the session of the turn
    turn,           \* the locals of process_message_inner and its position
    llmPlan,        \* what the LLM answers in this turn
    managerLock,    \* who holds the mutex of the gateway's ChannelManager
    ws,             \* one gateway connection: its position and the frames sent
    chan,           \* the channel message being ingested and what came of it
    bus,            \* the adapter's and the gateway's broadcast buses and their subscribers
    link,           \* the transport of a gateway connection and its per-connection task
    fs,             \* one session file as bytes on disk and the two agent requests that use it
    gui,            \* the desktop app: its cancel flag, its loading state and the chat it shows
    llm,            \* one response of the streaming LLM client: its server-sent events and the items polled
    outbox,         \* a Discord send_message call: its text, the limit, the chunks and what was sent
    skills,         \* the skill installer: policy, source, the skills root, the source cache and the last install
    auditlog,       \* the install audit log: a record written, the file, the records read
    listener,       \* the gateway's channel listener: messages to come, turns spawned
    mutex,          \* the tokio mutex of the gateway's ChannelManager and the tasks that lock it
    ui              \* the desktop window: loading state, shared cancel flag, chat, the turns spawned

storeVars == <<files, storeOp>>
gatewayVars == <<tokens, allowUnauth, agentSet, conn, resp, managerLock, ws, chan>>
execVars == <<securityLevel, cwd, execOp, host>>
agentVars == <<session, turn, llmPlan>>
extVars == <<bus, link, fs, gui, llm, outbox, skills, auditlog, listener, mutex, ui>>
vars == <<files, storeOp, tokens, allowUnauth, agentSet, conn, resp,
          securityLevel, cwd, execOp, host, session, turn, llmPlan, managerLock,
          ws, chan, bus,
          link,
          fs,
          gui,
          llm,
          outbox,
          skills,
          auditlog,
          listener,
          mutex,
          ui>>

(***************************************************************************)
(* Bounds                                                                  *)
(***************************************************************************)
MaxIdLen == 2
MaxFiles == 1
RunLen == 127
TokRunLen == 31

(***************************************************************************)
(* Text helpers                                                            *)
(***************************************************************************)
LongRun == "a*"
TokRun == "t*"

SeqsUpTo(S, n) == UNION {[1..k -> S] : k \in 0..n}

CharLen(c) ==
    IF c = LongRun THEN RunLen
    ELSE IF c = TokRun THEN TokRunLen
    ELSE IF c = "Bearer " THEN 7
    ELSE 1

RECURSIVE StrLen(_)
StrLen(s) == IF s = <<>> THEN 0 ELSE CharLen(Head(s)) + StrLen(Tail(s))

HasChar(s, c) == \E i \in 1..Len(s) : s[i] = c

HasDotDot(s) == \E i \in 1..(Len(s) - 1) : s[i] = "." /\ s[i + 1] = "."

IsWhitespace(c) == c \in {" ", "\n", "\r", "\t"}

AlnumChars ==
    {"a", "b", "d", "e", "r", "x", "1", "2", LongRun, TokRun, "discord", "c1", "c2", "u1"}

IsAsciiAlnum(c) == c \in AlnumChars

(***************************************************************************)
(* Paths: a path is a sequence of components, a component a text.          *)
(* Components follows std::path::Path::components on Unix: split at '/',   *)
(* drop empty components and '.' components, keep '..'.                    *)
(***************************************************************************)
RECURSIVE SplitAt(_, _, _)
SplitAt(s, sep, cur) ==
    IF s = <<>> THEN <<cur>>
    ELSE IF Head(s) = sep THEN <<cur>> \o SplitAt(Tail(s), sep, <<>>)
    ELSE SplitAt(Tail(s), sep, Append(cur, Head(s)))

Components(s) ==
    SelectSeq(SplitAt(s, "/", <<>>), LAMBDA c : c # <<>> /\ c # <<".">>)

IsAbsoluteText(s) == s # <<>> /\ Head(s) = "/"

JoinPath(base, s) == IF IsAbsoluteText(s) THEN Components(s) ELSE base \o Components(s)

StartsWithPath(p, base) == Len(p) >= Len(base) /\ SubSeq(p, 1, Len(base)) = base

ParentPath(p) == SubSeq(p, 1, Len(p) - 1)

DotDot == <<".", ".">>

RootDir == << <<"d">>, <<"s">> >>

Dirs == {SubSeq(RootDir, 1, k) : k \in 0..Len(RootDir)}

NoEnt == << <<"ENOENT">> >>

\* What the operating system makes of a path: '..' steps up, and every
\* directory walked through must exist.
RECURSIVE Resolve(_, _)
Resolve(p, at) ==
    IF p = <<>> THEN at
    ELSE IF at \notin Dirs THEN NoEnt
    ELSE IF Head(p) = DotDot
         THEN Resolve(Tail(p), IF at = <<>> THEN at ELSE ParentPath(at))
         ELSE Resolve(Tail(p), Append(at, Head(p)))

ResolvePath(p) == Resolve(p, <<>>)

FileName(id) == id \o <<".json">>

(***************************************************************************)
(* gearclaw_session::SessionManager                                        *)
(***************************************************************************)
MAX_SESSION_ID_LENGTH == 128

validate_session_id(id) ==
    IF \A i \in 1..Len(id) : IsWhitespace(id[i]) THEN "empty"
    ELSE IF StrLen(id) > MAX_SESSION_ID_LENGTH THEN "too long"
    ELSE IF id = <<".">> \/ id = DotDot \/ HasDotDot(id) THEN "path traversal"
    ELSE IF HasChar(id, "/") \/ HasChar(id, "\\") THEN "path separator"
    ELSE IF ~(\A i \in 1..Len(id) :
                 IsAsciiAlnum(id[i]) \/ id[i] \in {"-", "_", ".", ":"})
         THEN "unsupported characters"
    ELSE "ok"

session_file_path_unchecked(root, id) ==
    [ok |-> TRUE, path |-> JoinPath(root, FileName(id))]

session_file_path(root, id) ==
    LET path == JoinPath(root, FileName(id)) IN
    IF validate_session_id(id) # "ok" THEN [ok |-> FALSE, path |-> <<>>]
    ELSE IF ~StartsWithPath(path, root) THEN [ok |-> FALSE, path |-> <<>>]
    ELSE IF path = <<>> THEN [ok |-> FALSE, path |-> <<>>]
    ELSE IF ParentPath(path) # root THEN [ok |-> FALSE, path |-> <<>>]
    ELSE [ok |-> TRUE, path |-> path]

\* The legacy store of the root crate joins the id onto the directory as is.
legacy_session_file_path(root, id) ==
    [ok |-> TRUE, path |-> JoinPath(root, FileName(id))]

Exists(p) == ResolvePath(p) \in DOMAIN files \/ ResolvePath(p) \in Dirs

CanWrite(p) ==
    LET r == ResolvePath(p) IN
    /\ r # NoEnt
    /\ r \notin Dirs
    /\ ParentPath(r) \in Dirs

OpRecord(store, op, id, ok, path, accessed, changed) ==
    [store |-> store, op |-> op, id |-> id, accepted |-> (path # <<>>), ok |-> ok,
     path |-> path, accessed |-> accessed, changed |-> changed]

\* get_or_create_session, given the path resolution of the store
GetOrCreateWith(store, fp, id) ==
    /\ UNCHANGED files
    /\ storeOp' =
         IF ~fp.ok THEN OpRecord(store, "get_or_create", id, FALSE, <<>>, {}, FALSE)
         ELSE IF ResolvePath(fp.path) \in DOMAIN files
              THEN OpRecord(store, "get_or_create", id, TRUE, fp.path,
                            {ResolvePath(fp.path)}, FALSE)
         ELSE IF ResolvePath(fp.path) \in Dirs
              \* read_to_string of a directory fails
              THEN OpRecord(store, "get_or_create", id, FALSE, fp.path,
                            {ResolvePath(fp.path)}, FALSE)
         ELSE OpRecord(store, "get_or_create", id, TRUE, fp.path,
                       {ResolvePath(fp.path)}, FALSE)

SaveWith(store, fp, id) ==
    IF ~fp.ok
    THEN /\ UNCHANGED files
         /\ storeOp' = OpRecord(store, "save", id, FALSE, <<>>, {}, FALSE)
    ELSE IF CanWrite(fp.path)
    THEN /\ files' = [p \in DOMAIN files \cup {ResolvePath(fp.path)} |->
                         IF p = ResolvePath(fp.path) THEN id ELSE files[p]]
         /\ storeOp' = OpRecord(store, "save", id, TRUE, fp.path,
                                {ResolvePath(fp.path)}, TRUE)
    ELSE /\ UNCHANGED files
         /\ storeOp' = OpRecord(store, "save", id, FALSE, fp.path,
                                {ResolvePath(fp.path)}, FALSE)

DeleteWith(store, fp, id) ==
    IF ~fp.ok
    THEN /\ UNCHANGED files
         /\ storeOp' = OpRecord(store, "delete", id, FALSE, <<>>, {}, FALSE)
    ELSE IF ResolvePath(fp.path) \in DOMAIN files
    THEN /\ files' = [p \in DOMAIN files \ {ResolvePath(fp.path)} |-> files[p]]
         /\ storeOp' = OpRecord(store, "delete", id, TRUE, fp.path,
                                {ResolvePath(fp.path)}, TRUE)
    ELSE IF ResolvePath(fp.path) \in Dirs
    \* remove_file of a directory fails
    THEN /\ UNCHANGED files
         /\ storeOp' = OpRecord(store, "delete", id, FALSE, fp.path,
                                {ResolvePath(fp.path)}, FALSE)
    ELSE /\ UNCHANGED files
         /\ storeOp' = OpRecord(store, "delete", id, TRUE, fp.path,
                                {ResolvePath(fp.path)}, FALSE)

IdAlphabet == {"a", "."}

ExtraIds == { <<".", ".", "/", "e">>, <<"b", "/", "x">>, <<"a", ":", "1">>,
              <<LongRun, "a">>, <<LongRun, "a", "a">>, <<" ">>,
              <<"a", "\\", "a">>, <<".", ".", "/", ".", ".", "/", "x">> }

SessionIdInputs == SeqsUpTo(IdAlphabet, MaxIdLen) \cup ExtraIds

RoomFor(fp) ==
    \/ ~fp.ok
    \/ ResolvePath(fp.path) \in DOMAIN files
    \/ Cardinality(DOMAIN files) < MaxFiles

get_or_create_session(id) ==
    GetOrCreateWith("session", session_file_path(RootDir, id), id)

save_session(id) ==
    /\ RoomFor(session_file_path(RootDir, id))
    /\ SaveWith("session", session_file_path(RootDir, id), id)

delete_session(id) ==
    DeleteWith("session", session_file_path(RootDir, id), id)

legacy_get_or_create_session(id) ==
    GetOrCreateWith("legacy", legacy_session_file_path(RootDir, id), id)

legacy_save_session(id) ==
    /\ RoomFor(legacy_session_file_path(RootDir, id))
    /\ SaveWith("legacy", legacy_session_file_path(RootDir, id), id)

legacy_delete_session(id) ==
    DeleteWith("legacy", legacy_session_file_path(RootDir, id), id)

NoOp == OpRecord("none", "none", <<>>, FALSE, <<>>, {}, FALSE)

(***************************************************************************)
(* Gateway: token table and request handling                               *)
(***************************************************************************)
None == <<"none">>

StripBearer(t) == IF t # <<>> /\ Head(t) = "Bearer " THEN Tail(t) ELSE t

MinTokenLen == 32

\* char::is_alphanumeric or one of - _ .
IsTokenChar(c) == IsAsciiAlnum(c) \/ c \in {"-", "_", "."}

\* TokenAuth::validate against a table
validate_format_only(table, signature) ==
    LET token == StripBearer(signature) IN
    /\ StrLen(token) >= MinTokenLen
    /\ \A i \in 1..Len(token) : IsTokenChar(token[i])

validate(table, signature) ==
    LET token == StripBearer(signature) IN
    /\ StrLen(token) >= MinTokenLen
    /\ \A i \in 1..Len(token) : IsTokenChar(token[i])
    /\ token \in DOMAIN table

T1 == <<TokRun, "a">>
T2 == <<TokRun, "b">>
TBadChar == <<TokRun, "a", "$">>
TShort == <<TokRun>>

RegisterInputs == {T1, <<"Bearer ">> \o T1, TBadChar, TShort}

RevokeInputs == {T1, <<"Bearer ">> \o T1, TBadChar}

\* TokenAuth::register
register(token) ==
    /\ StrLen(StripBearer(token)) >= MinTokenLen
    /\ tokens' = [t \in DOMAIN tokens \cup {StripBearer(token)} |->
                     IF t = StripBearer(token) THEN [last_used |-> FALSE] ELSE tokens[t]]
    /\ UNCHANGED <<allowUnauth, agentSet, conn, resp, managerLock, ws, chan>>

\* TokenAuth::revoke
revoke(token) ==
    /\ StripBearer(token) \in DOMAIN tokens
    /\ tokens' = [t \in DOMAIN tokens \ {StripBearer(token)} |-> tokens[t]]
    /\ UNCHANGED <<allowUnauth, agentSet, conn, resp, managerLock, ws, chan>>

\* TokenAuth::update_last_used
update_last_used(table, signature) ==
    LET token == StripBearer(signature) IN
    IF token \in DOMAIN table
    THEN [table EXCEPT ![token] = [last_used |-> TRUE]]
    ELSE table

IsBlank(t) == \A i \in 1..Len(t) : IsWhitespace(t[i])

\* server.rs validate_agent_session_id
validate_agent_session_id(sid) ==
    /\ ~IsBlank(sid)
    /\ StrLen(sid) <= MAX_SESSION_ID_LENGTH
    /\ ~(sid = <<".">> \/ sid = DotDot \/ HasDotDot(sid))
    /\ ~(HasChar(sid, "/") \/ HasChar(sid, "\\"))
    /\ \A i \in 1..Len(sid) : IsAsciiAlnum(sid[i]) \/ sid[i] \in {"-", "_", ".", ":"}

EffectiveSessionId(req) == IF req.device_id # None THEN req.device_id ELSE req.id

\* server.rs validate_request
validate_request(req) ==
    /\ ~IsBlank(req.id)
    /\ (req.method = "agent" => validate_agent_session_id(EffectiveSessionId(req)))

Request(id, method, device, sig, params) ==
    [id |-> id, method |-> method, device_id |-> device, signature |-> sig,
     params |-> params]

R1 == <<"r", "1">>
Escape == <<".", ".", "/", "e">>

Signatures == {None, T1, <<"Bearer ">> \o T1, T2, TBadChar, TShort}

GatewayRequests ==
    {Request(id, m, None, sig, "none") :
        id \in {R1, <<>>}, m \in {"health", "status", "bogus"}, sig \in Signatures}
    \cup
    {Request(R1, "send", None, sig, p) :
        sig \in {None, <<"Bearer ">> \o T1},
        p \in {"no_target", "no_message", "no_colon", "bad_resolve", "bad_send",
                "registered", "unregistered"}}
    \cup
    {Request(id, "agent", dev, sig, "prompt") :
        id \in {R1, Escape}, dev \in {None, <<"d", "1">>, Escape},
        sig \in {None, T1}}

ErrorResponse(id, code) == [id |-> id, ok |-> FALSE, code |-> code, payload |-> "none"]
OkResponse(id, payload) == [id |-> id, ok |-> TRUE, code |-> "none", payload |-> payload]
NoResponse == [id |-> <<>>, ok |-> FALSE, code |-> "none", payload |-> "pending"]

Idle == [pc |-> "idle", req |-> Request(<<>>, "none", None, None, "none"),
         tokenInTable |-> FALSE, handlerRan |-> FALSE]

\* handle_request up to the table lookup of authorize_request
GwReceive(req) ==
    /\ conn.pc \in {"idle", "responded"}
    /\ UNCHANGED <<tokens, allowUnauth, agentSet, managerLock, ws, chan>>
    /\ LET base == [pc |-> "idle", req |-> req, handlerRan |-> FALSE,
                    tokenInTable |-> (req.signature # None
                                      /\ StripBearer(req.signature) \in DOMAIN tokens)]
       IN
       IF allowUnauth
       THEN /\ conn' = [base EXCEPT !.pc = "validate"]
            /\ resp' = NoResponse
       ELSE IF req.signature = None
       THEN /\ conn' = [base EXCEPT !.pc = "responded"]
            /\ resp' = ErrorResponse(req.id, "UNAUTHORIZED")
       ELSE IF ~validate(tokens, req.signature)
       THEN /\ conn' = [base EXCEPT !.pc = "responded"]
            /\ resp' = ErrorResponse(req.id, "UNAUTHORIZED")
       ELSE /\ conn' = [base EXCEPT !.pc = "update_last_used"]
            /\ resp' = NoResponse

\* authorize_request: auth.update_last_used(token).await
GwUpdateLastUsed ==
    /\ conn.pc = "update_last_used"
    /\ tokens' = update_last_used(tokens, conn.req.signature)
    /\ conn' = [conn EXCEPT !.pc = "validate"]
    /\ UNCHANGED <<allowUnauth, agentSet, resp, managerLock, ws, chan>>

\* MethodHandlers::send; the class of the parameters names the first branch
\* that ends the call
send(req) ==
    IF req.params = "no_target" THEN [err |-> TRUE, payload |-> "none"]
    ELSE IF req.params = "no_message" THEN [err |-> TRUE, payload |-> "none"]
    ELSE IF req.params = "no_colon" THEN [err |-> FALSE, payload |-> "send_failed"]
    ELSE IF req.params = "bad_resolve" THEN [err |-> TRUE, payload |-> "none"]
    ELSE IF req.params = "bad_send" THEN [err |-> TRUE, payload |-> "none"]
    ELSE IF req.params = "registered" THEN [err |-> FALSE, payload |-> "send_sent"]
    ELSE [err |-> FALSE, payload |-> "send_failed"]

\* MethodHandlers::agent_execute up to agent.process_message(..).await
agent_execute(req) ==
    LET fp == session_file_path(RootDir, EffectiveSessionId(req)) IN
    IF ~agentSet THEN [next |-> "responded", err |-> FALSE, payload |-> "agent_accepted"]
    ELSE IF ~fp.ok THEN [next |-> "responded", err |-> TRUE, payload |-> "none"]
    ELSE [next |-> "agent_turn", err |-> FALSE, payload |-> "pending"]

\* MethodHandlers::agent_execute: session_manager.save_session(&sess).await
agent_save(req) ==
    LET fp == session_file_path(RootDir, EffectiveSessionId(req)) IN
    IF ~CanWrite(fp.path) THEN [err |-> TRUE, payload |-> "none", save |-> <<>>]
    ELSE [err |-> FALSE, payload |-> "agent_completed", save |-> ResolvePath(fp.path)]

Respond(req, err, payload) ==
    resp' = IF err THEN ErrorResponse(req.id, "INTERNAL_ERROR")
            ELSE OkResponse(req.id, payload)

\* MethodHandlers::send reaches self.channel_manager.lock().await
SendTakesManagerLock(req) ==
    /\ validate_request(req)
    /\ req.method = "send"
    /\ req.params \notin {"no_target", "no_message", "no_colon"}

\* start_channel_listener: the task of a platform locks the manager and
\* keeps the guard while it reads the adapter's message stream
ListenerStreamEnds ==
    /\ managerLock = "listener"
    /\ managerLock' = "free"
    /\ UNCHANGED <<tokens, allowUnauth, agentSet, conn, resp, ws, chan>>

\* MethodHandlers::set_agent: the slot is filled and never emptied
SetAgent ==
    /\ ~agentSet
    /\ agentSet' = TRUE
    /\ UNCHANGED <<tokens, allowUnauth, conn, resp, managerLock, ws, chan>>

\* handle_request from validate_request to the response, or to the agent's
\* turn when the method is agent and an agent is set
GwDispatch ==
    /\ conn.pc = "validate"
    /\ SendTakesManagerLock(conn.req) => managerLock = "free"
    /\ UNCHANGED <<tokens, allowUnauth, agentSet, managerLock, ws, chan, files>>
    /\ LET req == conn.req IN
       IF ~validate_request(req)
       THEN /\ resp' = ErrorResponse(req.id, "INVALID_REQUEST")
            /\ conn' = [conn EXCEPT !.pc = "responded"]
       ELSE CASE req.method \in {"health", "status"} ->
                   /\ Respond(req, FALSE, req.method)
                   /\ conn' = [conn EXCEPT !.pc = "responded", !.handlerRan = TRUE]
              [] req.method = "send" ->
                   /\ Respond(req, send(req).err, send(req).payload)
                   /\ conn' = [conn EXCEPT !.pc = "responded", !.handlerRan = TRUE]
              [] req.method = "agent" ->
                   LET r == agent_execute(req) IN
                   /\ conn' = [conn EXCEPT !.pc = r.next, !.handlerRan = TRUE]
                   /\ IF r.next = "responded" THEN Respond(req, r.err, r.payload)
                      ELSE resp' = resp
              [] OTHER ->
                   /\ Respond(req, TRUE, "none")
                   /\ conn' = [conn EXCEPT !.pc = "responded", !.handlerRan = TRUE]

\* agent_execute: agent.process_message(&mut sess, prompt).await returns;
\* llmOk is the outcome of the orchestrator turn
GwAgentTurn ==
    /\ conn.pc = "agent_turn"
    /\ UNCHANGED <<tokens, allowUnauth, agentSet, managerLock, ws, chan, files>>
    /\ \E llmOk \in BOOLEAN :
          IF llmOk
          THEN /\ conn' = [conn EXCEPT !.pc = "agent_save"]
               /\ resp' = resp
          ELSE /\ conn' = [conn EXCEPT !.pc = "responded"]
               /\ Respond(conn.req, TRUE, "none")

\* agent_execute: save_session and the response
GwAgentSave ==
    /\ conn.pc = "agent_save"
    /\ UNCHANGED <<tokens, allowUnauth, agentSet, managerLock, ws, chan>>
    /\ LET req == conn.req
           r == agent_save(req) IN
       /\ conn' = [conn EXCEPT !.pc = "responded"]
       /\ Respond(req, r.err, r.payload)
       /\ files' = IF r.save = <<>> THEN files
                   ELSE [p \in DOMAIN files \cup {r.save} |->
                           IF p = r.save THEN EffectiveSessionId(req)
                           ELSE files[p]]

(***************************************************************************)
(* Tool executors.  A command or an argument is a text whose elements are  *)
(* either one special character or a run of ordinary characters.           *)
(***************************************************************************)
Contains(t, pat) ==
    \E i \in 0..(Len(t) - Len(pat)) : SubSeq(t, i + 1, i + Len(pat)) = pat

SAFE_COMMANDS ==
    { <<"ls">>, <<"cat">>, <<"grep">>, <<"head">>, <<"tail">>, <<"find">>,
      <<"git">>, <<"npm">>, <<"node">>, <<"cargo">>, <<"rustc">>,
      <<"go">>, <<"java">>, <<"python">>, <<"python3">>, <<"pip">>,
      <<"docker">>, <<"docker", "-", "compose">>, <<"kubectl">>,
      <<"curl">>, <<"wget">>, <<"mkdir">>, <<"cp">>, <<"mv">>, <<"echo">> }

is_safe_command(cmd) == cmd \in SAFE_COMMANDS

\* the character ` (written out, the lexer does not take it in a string)
Backquote == "backquote"

DANGEROUS_TOKENS ==
    { <<"&", "&">>, <<"|", "|">>, <<";">>, <<"|">>, <<Backquote>>, <<"$", "(">> }

Spawn(program, argv, dir) == [program |-> program, argv |-> argv, dir |-> dir]

ToolOk(output, dir, spawned) ==
    [ok |-> TRUE, success |-> TRUE, output |-> output, error |-> "",
     cwd |-> dir, spawned |-> spawned]

ToolUnsuccessful(error, dir) ==
    [ok |-> TRUE, success |-> FALSE, output |-> "", error |-> error,
     cwd |-> dir, spawned |-> <<>>]

ToolErr(message, dir, spawned) ==
    [ok |-> FALSE, success |-> FALSE, output |-> "", error |-> message,
     cwd |-> dir, spawned |-> spawned]

ToolExecutionError(reason) == "Tool 'unknown' execution failed: " \o reason

RECURSIVE FullCmd(_, _)
FullCmd(line, args) ==
    IF args = <<>> THEN line
    ELSE FullCmd(line \o <<" ">> \o Head(args), Tail(args))

\* gearclaw_core ToolExecutor::execute_any_command: the command line is
\* handed to a shell
core_execute_any_command(cmd, args, dir, spawnOk, exitOk) ==
    LET proc == Spawn(<<"sh">>, << <<"-", "c">>, FullCmd(cmd, args) >>, dir) IN
    IF ~spawnOk THEN ToolErr(ToolExecutionError("spawn failed"), dir, <<>>)
    ELSE IF exitOk THEN ToolOk("stdout", dir, <<proc>>)
    ELSE ToolErr(ToolExecutionError("exit status"), dir, <<proc>>)

\* gearclaw_core ToolExecutor::exec_command
core_exec_command(level, cmd, args, dir, spawnOk, exitOk) ==
    IF level = "deny" THEN ToolErr(ToolExecutionError("security=deny"), dir, <<>>)
    ELSE IF level = "allowlist" /\ ~is_safe_command(cmd)
    THEN ToolErr(ToolExecutionError("not in allowlist"), dir, <<>>)
    ELSE core_execute_any_command(cmd, args, dir, spawnOk, exitOk)

\* gearclaw_tools ToolExecutor::validate_exec_input
validate_exec_input(cmd, args) ==
    /\ ~IsBlank(cmd)
    /\ ~HasChar(cmd, "\\0")
    /\ \A i \in 1..Len(args) : ~HasChar(args[i], "\\0")

StartsWithDash(arg) == arg # <<>> /\ Head(arg) = "-"

\* the first argument that is not an option, or the default
Subcommand(args, default) ==
    IF \E i \in 1..Len(args) : ~StartsWithDash(args[i])
    THEN args[CHOOSE i \in 1..Len(args) :
                 /\ ~StartsWithDash(args[i])
                 /\ \A j \in 1..(i - 1) : StartsWithDash(args[j])]
    ELSE default

\* gearclaw_tools ToolExecutor::allowlist_block_reason; TRUE when blocked
allowlist_blocked(cmd, args) ==
    \/ \E i \in 1..Len(args) :
          \/ HasChar(args[i], "\n")
          \/ HasChar(args[i], "\r")
          \/ \E tok \in DANGEROUS_TOKENS : Contains(args[i], tok)
    \/ /\ cmd \in {<<"python">>, <<"python3">>}
       /\ \E i \in 1..Len(args) : args[i] = <<"-", "c">>
    \/ /\ cmd = <<"node">>
       /\ \E i \in 1..Len(args) :
             args[i] \in {<<"-", "e">>, <<"-", "-", "eval">>, <<"-", "p">>}
    \/ /\ cmd = <<"git">>
       /\ Subcommand(args, <<"status">>) \notin
             { <<"status">>, <<"diff">>, <<"log">>, <<"show">>, <<"branch">>,
               <<"rev", "-", "parse">>, <<"ls", "-", "files">> }
    \/ /\ cmd \in {<<"docker">>, <<"docker", "-", "compose">>}
       /\ Subcommand(args, <<"ps">>) \notin
             { <<"ps">>, <<"images">>, <<"logs">>, <<"inspect">> }
    \/ /\ cmd = <<"cargo">>
       /\ Subcommand(args, <<"build">>) \notin
             { <<"build">>, <<"check">>, <<"test">>, <<"fmt">>, <<"clippy">>,
               <<"run">>, <<"metadata">> }

\* gearclaw_tools ToolExecutor::validate_allowlist_policy
validate_allowlist_policy(cmd, args) ==
    is_safe_command(cmd) /\ ~allowlist_blocked(cmd, args)

\* gearclaw_tools ToolExecutor::execute_any_command: the binary is spawned
\* with the argument vector
tools_execute_any_command(cmd, args, dir, spawnOk, exitOk) ==
    IF ~spawnOk THEN ToolErr("execution error: spawn failed", dir, <<>>)
    ELSE IF exitOk THEN ToolOk("stdout", dir, <<Spawn(cmd, args, dir)>>)
    ELSE ToolErr("execution error: exit status", dir, <<Spawn(cmd, args, dir)>>)

\* gearclaw_tools ToolExecutor::exec_command
tools_exec_command(level, cmd, args, dir, spawnOk, exitOk) ==
    IF ~validate_exec_input(cmd, args)
    THEN ToolErr("execution error: invalid input", dir, <<>>)
    ELSE IF level = "deny"
    THEN ToolErr("execution error: security=deny", dir, <<>>)
    ELSE IF level = "allowlist" /\ ~validate_allowlist_policy(cmd, args)
    THEN ToolErr("execution error: blocked by allowlist", dir, <<>>)
    ELSE tools_execute_any_command(cmd, args, dir, spawnOk, exitOk)

HomeDir == << <<"d">> >>

\* files the agent's file tools can see at the start, next to the
\* directories of Dirs
ToolFiles == (<< <<"d">>, <<"x">> >> :> "hello")

\* the machine before any tool has written: every process starts and exits
\* with status 0
NoHost == [dirs |-> {}, files |-> ToolFiles, spawnOk |-> TRUE, exitOk |-> TRUE]

\* the machines a turn can run on: processes start or do not, and exit with
\* status 0 or with another one
Hosts ==
    {NoHost, [NoHost EXCEPT !.spawnOk = FALSE], [NoHost EXCEPT !.exitOk = FALSE]}

\* the longest turn that is run on a host whose processes fail
MaxFaultRounds == 2

HostDirs == Dirs \cup host.dirs

\* what the operating system makes of a path once tools have written: the
\* walk of Resolve over the directories of the host, those the tools have
\* made included
RECURSIVE HostWalk(_, _)
HostWalk(p, at) ==
    IF p = <<>> THEN at
    ELSE IF at \notin HostDirs THEN NoEnt
    ELSE IF Head(p) = DotDot
         THEN HostWalk(Tail(p), IF at = <<>> THEN at ELSE ParentPath(at))
         ELSE HostWalk(Tail(p), Append(at, Head(p)))

HostResolve(p) == HostWalk(p, <<>>)

\* an exec tool that hands cd to the executor like any other command
exec_tool_cd_spawned(level, dir, cmd, args, spawnOk, exitOk) ==
    core_exec_command(level, cmd, args, dir, spawnOk, exitOk)

\* Agent::execute_tool_call, tool "exec" with a command: cd is handled
\* in the agent, everything else goes to the executor
exec_tool(level, dir, cmd, args, spawnOk, exitOk) ==
    IF cmd = <<"cd">>
    THEN LET new_cwd == IF args = <<>> THEN HomeDir ELSE JoinPath(dir, args[1])
             resolved_cwd == HostResolve(new_cwd)
         IN IF resolved_cwd \in HostDirs
            THEN ToolOk("Changed directory", resolved_cwd, <<>>)
            ELSE ToolUnsuccessful("Directory not found", dir)
    ELSE core_exec_command(level, cmd, args, dir, spawnOk, exitOk)

ExecCall(cmd, args) == [cmd |-> cmd, args |-> args]

ExecCalls ==
    { ExecCall(<<"ls">>, <<>>),
      ExecCall(<<"ls">>, << <<"-", "la">> >>),
      ExecCall(<<"ls">>, << <<"&", "&">>, <<"whoami">> >>),
      ExecCall(<<"ls">>, << <<"a", ";", "b">> >>),
      ExecCall(<<"cat">>, << <<"x", "|", "y">> >>),
      ExecCall(<<"echo">>, << <<Backquote, "id", Backquote>> >>),
      ExecCall(<<"echo">>, << <<"$", "(", "id", ")">> >>),
      ExecCall(<<"echo">>, << <<"a", "\n", "b">> >>),
      ExecCall(<<"echo">>, << <<"a", "\r", "b">> >>),
      ExecCall(<<"echo">>, << <<"a", "\\0">> >>),
      ExecCall(<<"rm">>, << <<"x">> >>),
      ExecCall(<<"python">>, << <<"-", "c">>, <<"code">> >>),
      ExecCall(<<"git">>, << <<"-", "C">>, <<"push">> >>),
      ExecCall(<<"git">>, << <<"status">> >>),
      ExecCall(<<"cd">>, << <<"/", "d">> >>),
      ExecCall(<<"cd">>, << <<".", ".">> >>),
      ExecCall(<<"cd">>, << <<"nodir">> >>),
      ExecCall(<<"cd">>, << <<"s">> >>),
      ExecCall(<<"cd">>, << <<"x">> >>),
      ExecCall(<<"cd">>, <<>>),
      ExecCall(<<>>, <<>>) }

ExecRecord(executor, call, dir, result) ==
    [executor |-> executor, cmd |-> call.cmd, args |-> call.args,
     cwdBefore |-> dir, result |-> result]

NoExec == ExecRecord("none", ExecCall(<<>>, <<>>), <<>>, ToolErr("", <<>>, <<>>))

\* the agent's exec tool on the session's working directory
AgentExecTool ==
    \E call \in ExecCalls, spawnOk \in BOOLEAN, exitOk \in BOOLEAN :
        LET r == exec_tool(securityLevel, cwd, call.cmd, call.args, spawnOk, exitOk) IN
        /\ execOp' = ExecRecord("agent", call, cwd, r)
        /\ cwd' = r.cwd
        /\ UNCHANGED <<securityLevel, host, storeVars, gatewayVars, agentVars, extVars>>

\* gearclaw_core ToolExecutor::exec_command called directly
CoreExecCommand ==
    \E call \in ExecCalls, spawnOk \in BOOLEAN, exitOk \in BOOLEAN :
        /\ execOp' = ExecRecord("core", call, cwd,
                         core_exec_command(securityLevel, call.cmd, call.args, cwd,
                                           spawnOk, exitOk))
        /\ UNCHANGED <<securityLevel, host, cwd, storeVars, gatewayVars, agentVars, extVars>>

\* gearclaw_tools ToolExecutor::exec_command
ToolsExecCommand ==
    \E call \in ExecCalls, spawnOk \in BOOLEAN, exitOk \in BOOLEAN :
        /\ execOp' = ExecRecord("tools", call, cwd,
                         tools_exec_command(securityLevel, call.cmd, call.args, cwd,
                                            spawnOk, exitOk))
        /\ UNCHANGED <<securityLevel, host, cwd, storeVars, gatewayVars, agentVars, extVars>>


(***************************************************************************)
(* Agent: the tool router and the orchestration loop                       *)
(***************************************************************************)
NoText == "(none)"

Message(role, content, tool_calls, tool_call_id) ==
    [role |-> role, content |-> content, tool_calls |-> tool_calls,
     tool_call_id |-> tool_call_id]

Absent == <<"absent">>

EmptyArgs ==
    [command |-> Absent, args |-> <<>>, path |-> Absent, content |-> Absent,
     query |-> Absent]

\* serde_json::from_str(arguments).unwrap_or(json!({})) on the argument
\* strings the modelled LLM produces; a content present is a sequence of one
\* text
ParseArgs(raw) ==
    CASE raw = "{path:/d/x}" ->
            [EmptyArgs EXCEPT !.path = <<"/", "d", "/", "x">>]
      [] raw = "{path:/missing}" ->
            [EmptyArgs EXCEPT !.path = <<"/", "missing">>]
      [] raw = "{path:nodir}" ->
            [EmptyArgs EXCEPT !.path = <<"nodir">>]
      [] raw = "{path:n/f}" ->
            [EmptyArgs EXCEPT !.path = <<"n", "/", "f">>]
      [] raw = "{path:n/f,content:hi}" ->
            [EmptyArgs EXCEPT !.path = <<"n", "/", "f">>, !.content = <<"hi">>]
      [] raw = "{path:/d/x/f,content:hi}" ->
            [EmptyArgs EXCEPT !.path = <<"/", "d", "/", "x", "/", "f">>,
                              !.content = <<"hi">>]
      [] raw = "{path:/d,content:hi}" ->
            [EmptyArgs EXCEPT !.path = <<"/", "d">>, !.content = <<"hi">>]
      [] raw = "{query:a&b}" ->
            [EmptyArgs EXCEPT !.query = <<"a", "&", "b">>]
      [] raw = "{command:cd,args:[nodir]}" ->
            [EmptyArgs EXCEPT !.command = <<"cd">>, !.args = << <<"nodir">> >>]
      [] raw = "{command:cd,args:[/d]}" ->
            [EmptyArgs EXCEPT !.command = <<"cd">>, !.args = << <<"/", "d">> >>]
      [] raw = "{command:ls,args:[&&,whoami]}" ->
            [EmptyArgs EXCEPT !.command = <<"ls">>,
                              !.args = << <<"&", "&">>, <<"whoami">> >>]
      [] raw = "{command:ls}" ->
            [EmptyArgs EXCEPT !.command = <<"ls">>]
      [] OTHER -> EmptyArgs

PathExists(p) == HostResolve(p) \in HostDirs \/ HostResolve(p) \in DOMAIN host.files

\* the tool names of the modelled LLM that contain "__", and the text before
\* the first "__" of each
McpToolNames == {"srv__t", "a__b"}

McpServer(name) == IF name = "srv__t" THEN "srv" ELSE "a"

\* gearclaw_mcp McpManager::is_enabled: the capability is disabled at build
mcp_is_enabled == FALSE

\* std::fs::create_dir_all walking the components p from the directory at:
\* every directory on the way is made when it is missing, and a file on the
\* way ends the walk with an error that leaves what was made
RECURSIVE CreateDirAll(_, _, _)
CreateDirAll(p, at, made) ==
    IF at \in DOMAIN host.files THEN [ok |-> FALSE, at |-> at, made |-> made]
    ELSE LET made2 == IF at \in HostDirs THEN made ELSE made \cup {at} IN
         IF p = <<>> THEN [ok |-> TRUE, at |-> at, made |-> made2]
         ELSE IF Head(p) = DotDot
         THEN CreateDirAll(Tail(p), IF at = <<>> THEN at ELSE ParentPath(at), made2)
         ELSE CreateDirAll(Tail(p), Append(at, Head(p)), made2)

WriteResult(result, made, contents) ==
    [result |-> result, host |-> [host EXCEPT !.dirs = made, !.files = contents]]

\* Agent::execute_tool_call, tool "write_file": the result and the host
\* after it
write_file(dir, args) ==
    IF args.path = Absent
    THEN WriteResult(ToolErr(ToolExecutionError("write_file needs path"), dir, <<>>),
                     host.dirs, host.files)
    ELSE IF args.content = Absent
    THEN WriteResult(ToolErr(ToolExecutionError("write_file needs content"), dir, <<>>),
                     host.dirs, host.files)
    ELSE LET full_path == JoinPath(dir, args.path) IN
         IF full_path = <<>>
         THEN WriteResult(ToolErr("IO error: cannot write", dir, <<>>),
                          host.dirs, host.files)
         ELSE LET parent == CreateDirAll(ParentPath(full_path), <<>>, {})
                  dirs == host.dirs \cup parent.made
                  target == Append(parent.at, full_path[Len(full_path)])
              IN IF ~parent.ok
                 THEN WriteResult(ToolErr("IO error: cannot create", dir, <<>>),
                                  dirs, host.files)
                 ELSE IF full_path[Len(full_path)] = DotDot
                         \/ target \in Dirs \cup dirs
                 THEN WriteResult(ToolErr("IO error: cannot write", dir, <<>>),
                                  dirs, host.files)
                 ELSE WriteResult(ToolOk("written", dir, <<>>), dirs,
                                  [q \in DOMAIN host.files \cup {target} |->
                                     IF q = target THEN args.content[1]
                                     ELSE host.files[q]])

\* urlencoding::encode: ASCII letters and digits and - _ . ~ stay, every
\* other byte becomes % and its two hexadecimal digits.  An atom that is not
\* listed is a text of characters that stay.
RECURSIVE urlencoding_encode(_)
urlencoding_encode(data) ==
    IF data = <<>> THEN <<>>
    ELSE LET c == Head(data)
             hex == CASE c = " " -> <<"2", "0">>
                      [] c = "!" -> <<"2", "1">>
                      [] c = "\"" -> <<"2", "2">>
                      [] c = "#" -> <<"2", "3">>
                      [] c = "$" -> <<"2", "4">>
                      [] c = "%" -> <<"2", "5">>
                      [] c = "&" -> <<"2", "6">>
                      [] c = "'" -> <<"2", "7">>
                      [] c = "(" -> <<"2", "8">>
                      [] c = ")" -> <<"2", "9">>
                      [] c = "*" -> <<"2", "A">>
                      [] c = "+" -> <<"2", "B">>
                      [] c = "," -> <<"2", "C">>
                      [] c = "/" -> <<"2", "F">>
                      [] c = ":" -> <<"3", "A">>
                      [] c = ";" -> <<"3", "B">>
                      [] c = "<" -> <<"3", "C">>
                      [] c = "=" -> <<"3", "D">>
                      [] c = ">" -> <<"3", "E">>
                      [] c = "?" -> <<"3", "F">>
                      [] c = "@" -> <<"4", "0">>
                      [] c = "[" -> <<"5", "B">>
                      [] c = "\\" -> <<"5", "C">>
                      [] c = "]" -> <<"5", "D">>
                      [] c = "^" -> <<"5", "E">>
                      [] c = Backquote -> <<"6", "0">>
                      [] c = "{" -> <<"7", "B">>
                      [] c = "|" -> <<"7", "C">>
                      [] c = "}" -> <<"7", "D">>
                      [] c = "\n" -> <<"0", "A">>
                      [] c = "\r" -> <<"0", "D">>
                      [] c = "\t" -> <<"0", "9">>
                      [] OTHER -> <<>>
         IN  (IF hex = <<>> THEN <<c>> ELSE <<"%">> \o hex)
                 \o urlencoding_encode(Tail(data))

\* format!("https://api.duckduckgo.com/?q={}", urlencoding::encode(query))
SearchUrl(query) == <<"https://api.duckduckgo.com/?q=">> \o urlencoding_encode(query)

\* Agent::execute_tool_call; the processes the tools start fare as the host
\* has it
execute_tool_call(level, dir, name, raw) ==
    LET args == ParseArgs(raw) IN
    IF name \in McpToolNames
    THEN IF ~mcp_is_enabled
         THEN ToolErr("MCP [" \o McpServer(name)
                        \o "] error: MCP support is disabled in this build", dir, <<>>)
         ELSE ToolOk("mcp", dir, <<>>)
    ELSE CASE name = "exec" ->
                IF args.command = Absent
                THEN ToolErr(ToolExecutionError("exec needs command"), dir, <<>>)
                ELSE exec_tool(level, dir, args.command, args.args,
                               host.spawnOk, host.exitOk)
           [] name = "read_file" ->
                IF args.path = Absent
                THEN ToolErr(ToolExecutionError("read_file needs path"), dir, <<>>)
                ELSE IF HostResolve(JoinPath(dir, args.path)) \in DOMAIN host.files
                THEN ToolOk(host.files[HostResolve(JoinPath(dir, args.path))], dir, <<>>)
                ELSE ToolErr("IO error: cannot read", dir, <<>>)
           [] name = "write_file" -> write_file(dir, args).result
           [] name = "list_files" ->
                IF ~PathExists(JoinPath(dir, IF args.path = Absent THEN <<".">>
                                             ELSE args.path))
                THEN ToolUnsuccessful("Directory not found", dir)
                ELSE ToolOk("listing", dir, <<>>)
           [] name = "file_info" ->
                IF args.path = Absent
                THEN ToolErr(ToolExecutionError("file_info needs path"), dir, <<>>)
                ELSE IF ~PathExists(JoinPath(dir, args.path))
                THEN ToolUnsuccessful("Path not found", dir)
                ELSE ToolOk("info", dir, <<>>)
           [] name = "web_search" ->
                IF args.query = Absent
                THEN ToolErr(ToolExecutionError("web_search needs query"), dir, <<>>)
                ELSE [core_exec_command(level, <<"curl">>,
                                        << <<"-", "s">>, <<"-", "L">>,
                                           SearchUrl(args.query) >>,
                                        None, host.spawnOk, host.exitOk)
                        EXCEPT !.cwd = dir]
           [] name = "git_status" ->
                core_exec_command(level, <<"git">>, << <<"status">> >>, dir,
                                  host.spawnOk, host.exitOk)
           [] name = "docker_ps" ->
                core_exec_command(level, <<"docker">>, << <<"ps">> >>, dir,
                                  host.spawnOk, host.exitOk)
           [] OTHER -> ToolErr("Tool not found: " \o name, dir, <<>>)

\* the host after Agent::execute_tool_call
host_after(dir, name, raw) ==
    IF name = "write_file" THEN write_file(dir, ParseArgs(raw)).host ELSE host

(***************************************************************************)
(* The LLM stream: chunks carry a text delta and tool-call deltas; the     *)
(* end-of-stream sentinel and broken chunks arrive as errors.              *)
(***************************************************************************)
\* ToolCallDelta: the id is an Option, <<>> when the chunk carries none
Delta(index, id, name, args) ==
    [index |-> index, id |-> id, name |-> name, args |-> args]

Some(v) == <<v>>

DataChunk(content, deltas) == [kind |-> "data", content |-> content, deltas |-> deltas]
DoneChunk == [kind |-> "done", content |-> "", deltas |-> <<>>]
BrokenChunk == [kind |-> "error", content |-> "", deltas |-> <<>>]
\* Err(LlmError::Request("stream error: ..")): the transport failed mid-stream
TransportErrorChunk == [kind |-> "transport", content |-> "", deltas |-> <<>>]

\* tool_call_chunks.entry(tc.index).or_insert(..) and the pushes onto it
ApplyDelta(calls, d) ==
    LET old == IF d.index \in DOMAIN calls THEN calls[d.index]
               ELSE [id |-> "", name |-> "", arguments |-> ""]
        new == [id |-> IF d.id # <<>> THEN d.id[1] ELSE old.id,
                name |-> old.name \o d.name,
                arguments |-> old.arguments \o d.args]
    IN [i \in DOMAIN calls \cup {d.index} |-> IF i = d.index THEN new ELSE calls[i]]

RECURSIVE ApplyDeltas(_, _)
ApplyDeltas(calls, deltas) ==
    IF deltas = <<>> THEN calls
    ELSE ApplyDeltas(ApplyDelta(calls, Head(deltas)), Tail(deltas))

\* the while-let loop over the stream
RECURSIVE ConsumeStream(_, _)
ConsumeStream(acc, chunks) ==
    IF chunks = <<>> THEN acc
    ELSE LET c == Head(chunks) IN
         IF c.kind = "data"
         THEN ConsumeStream([content |-> acc.content \o c.content,
                             calls |-> ApplyDeltas(acc.calls, c.deltas)],
                            Tail(chunks))
         ELSE ConsumeStream(acc, Tail(chunks))

RECURSIVE Ascending(_)
Ascending(S) ==
    IF S = {} THEN <<>>
    ELSE LET m == CHOOSE x \in S : \A y \in S : x <= y
         IN <<m>> \o Ascending(S \ {m})

RECURSIVE Descending(_)
Descending(S) ==
    IF S = {} THEN <<>>
    ELSE LET m == CHOOSE x \in S : \A y \in S : x >= y
         IN <<m>> \o Descending(S \ {m})

CallsInOrder(calls, order) ==
    [k \in 1..Len(order) |->
        [index |-> order[k], id |-> calls[order[k]].id,
         name |-> calls[order[k]].name, arguments |-> calls[order[k]].arguments]]

\* a reassembly that keeps the map's own order
reassemble_unsorted(calls) == CallsInOrder(calls, Descending(DOMAIN calls))

\* sorted_calls.sort_by_key(|(idx, _)| *idx) and the ToolCall list
reassemble_tool_calls(calls) == CallsInOrder(calls, Ascending(DOMAIN calls))

LOOP_CAP == 15

loop_continues_one_more(loop_count) == loop_count <= LOOP_CAP

\* while loop_count < 15
loop_continues(loop_count) == loop_count < LOOP_CAP

assistant_message_without_calls(content, calls) ==
    Message("assistant", IF content = "" THEN NoText ELSE content, <<>>, "")

\* the assistant message of one LLM response
assistant_message(content, calls) ==
    Message("assistant", IF content = "" THEN NoText ELSE content, calls, "")

\* the tool message of one tool call
tool_message(result, id) ==
    Message("tool", IF result.ok THEN result.output ELSE "Error: " \o result.error,
            <<>>, id)

(***************************************************************************)
(* Trigger filter for channel messages.  A content or a pattern is a text  *)
(* of atoms; a channel key is the pair of the platform and an id.          *)
(***************************************************************************)
TriggerConfig(mode, mention_patterns, keywords, enabled_channels, disabled_channels) ==
    [mode |-> mode, mention_patterns |-> mention_patterns, keywords |-> keywords,
     enabled_channels |-> enabled_channels, disabled_channels |-> disabled_channels]

ChannelKey(platform, id) == <<platform, id>>

StartsWithText(t, pat) == Len(pat) <= Len(t) /\ SubSeq(t, 1, Len(pat)) = pat

\* pattern.replace('@', "")
RemoveAt(pat) == SelectSeq(pat, LAMBDA a : a # "@")

\* str::to_lowercase on the atoms of the modelled contents
LowerAtom(a) ==
    CASE a = "Help" -> "help"
      [] a = "HELP" -> "help"
      [] OTHER -> a

to_lowercase(t) == [i \in 1..Len(t) |-> LowerAtom(t[i])]

\* gateway triggers::should_trigger_agent, after the two lists
trigger_mode_accepts(cfg, content) ==
    CASE cfg.mode = "always" -> TRUE
      [] cfg.mode = "mention" ->
            \E pattern \in cfg.mention_patterns :
                Contains(content, pattern) \/ StartsWithText(content, RemoveAt(pattern))
      [] cfg.mode = "keyword" ->
            \E keyword \in cfg.keywords :
                Contains(to_lowercase(content), to_lowercase(keyword))

\* gateway triggers::should_trigger_agent; source_id is get_channel_id(source)
should_trigger_agent(platform, source_id, content, cfg) ==
    LET channel_key == ChannelKey(platform, source_id) IN
    IF channel_key \in cfg.disabled_channels THEN FALSE
    ELSE IF cfg.enabled_channels # {} /\ channel_key \notin cfg.enabled_channels
    THEN FALSE
    ELSE trigger_mode_accepts(cfg, content)

\* Agent::should_respond_to_message
should_respond_to_message(cfg, platform, source_id, content) ==
    LET channel_key == ChannelKey(platform, source_id) IN
    IF channel_key \in cfg.disabled_channels THEN FALSE
    ELSE IF cfg.enabled_channels # {} /\ channel_key \notin cfg.enabled_channels
    THEN FALSE
    ELSE CASE cfg.mode = "always" -> TRUE
           [] cfg.mode = "mention" ->
                 \E pattern \in cfg.mention_patterns :
                     StartsWithText(content, pattern) \/ Contains(content, pattern)
           [] cfg.mode = "keyword" ->
                 \E keyword \in cfg.keywords :
                     Contains(to_lowercase(content), to_lowercase(keyword))

\* the string of a text
RECURSIVE Flatten(_)
Flatten(t) == IF t = <<>> THEN "" ELSE Head(t) \o Flatten(Tail(t))

(***************************************************************************)
(* One gateway connection: accept, handshake and the connection loop       *)
(***************************************************************************)
MaxFrames == 3
MaxEvents == 2

NoConnection ==
    [pc |-> "listening", subscribed |-> FALSE, rx |-> <<>>, frames |-> <<>>,
     read |-> 0, pending |-> ""]

\* create_hello_ok and the frame handle_connection wraps it in
HelloFrame ==
    [type |-> "res", id |-> "hello", ok |-> TRUE,
     payload |-> [protocol |-> [min |-> 1, max |-> 1]]]

\* the response of handle_request as handle_connection sends it: the
\* GatewayResponse itself, without the type and data of a GatewayFrame
ResponseFrame(id, ok) ==
    [type |-> "none", id |-> id, ok |-> ok,
     payload |-> IF ok THEN "response" ELSE "error"]

\* the text frames a client sends: a request frame, a request without the
\* type and data of a frame, a response frame, and text that is not JSON
FrameTexts == {"req", "bare_request", "res", "not_json"}

\* serde_json::from_str::<GatewayFrame>(text) gives GatewayFrame::Request
ParsesAsRequest(text) == text = "req"

EventFrame(event) == [type |-> "event", id |-> "", ok |-> TRUE, payload |-> event]

\* broadcast::Sender::send: every subscribed receiver buffers the event
publish(w, event) ==
    IF w.subscribed /\ w.pc # "closed" THEN [w EXCEPT !.rx = Append(@, event)] ELSE w

handshake_frames_after_events(rx) ==
    [i \in 1..Len(rx) |-> EventFrame(rx[i])] \o <<HelloFrame>>

\* handle_connection: the frames sent before the connection loop is entered
handshake_frames(rx) == <<HelloFrame>>

\* GatewayServer::start: accept and event_tx.subscribe()
ConnAccept ==
    /\ ws.pc = "listening"
    /\ ws' = [ws EXCEPT !.pc = "accepted", !.subscribed = TRUE]
    /\ UNCHANGED <<tokens, allowUnauth, agentSet, conn, resp, managerLock, chan>>

\* an event is published on the bus of the gateway
PublishEvent ==
    /\ Len(ws.rx) + Len(ws.frames) < MaxEvents + 1
    /\ \E name \in {"channel.message", "tick"} :
          ws' = publish(ws, [name |-> name, early |-> ws.pc = "accepted"])
    /\ UNCHANGED <<tokens, allowUnauth, agentSet, conn, resp, managerLock, chan>>

\* handle_connection: the WebSocket upgrade and the hello frame
ConnHandshake ==
    /\ ws.pc = "accepted"
    /\ \E upgraded \in BOOLEAN :
          ws' = IF upgraded
                THEN [ws EXCEPT !.pc = "open", !.frames = handshake_frames(ws.rx)]
                ELSE [ws EXCEPT !.pc = "closed"]
    /\ UNCHANGED <<tokens, allowUnauth, agentSet, conn, resp, managerLock, chan>>

\* the connection loop, branch of a text frame: a request enters
\* handle_request, any other text is dropped without an answer
ConnRequest ==
    /\ ws.pc = "open"
    /\ ws.read < MaxFrames
    /\ Len(ws.frames) < MaxFrames
    /\ \E text \in FrameTexts, id \in {"r1", "hello"} :
          ws' = IF ParsesAsRequest(text)
                THEN [ws EXCEPT !.pc = "handling", !.read = @ + 1, !.pending = id]
                ELSE [ws EXCEPT !.read = @ + 1]
    /\ UNCHANGED <<tokens, allowUnauth, agentSet, conn, resp, managerLock, chan>>

\* handle_request(..).await returns and its response is sent; a failed send
\* ends handle_connection
ConnRespond ==
    /\ ws.pc = "handling"
    /\ \E ok \in BOOLEAN, sent \in BOOLEAN :
          ws' = IF sent
                THEN [ws EXCEPT !.pc = "open", !.pending = "",
                                !.frames = Append(@, ResponseFrame(ws.pending, ok))]
                ELSE [ws EXCEPT !.pc = "closed", !.pending = ""]
    /\ UNCHANGED <<tokens, allowUnauth, agentSet, conn, resp, managerLock, chan>>

\* the connection loop, branch of a broadcast event
ConnForwardEvent ==
    /\ ws.pc = "open"
    /\ ws.rx # <<>>
    /\ Len(ws.frames) < MaxFrames
    /\ ws' = [ws EXCEPT !.frames = Append(@, EventFrame(Head(ws.rx))), !.rx = Tail(@)]
    /\ UNCHANGED <<tokens, allowUnauth, agentSet, conn, resp, managerLock, chan>>

\* the connection loop ends: close frame, error or end of the stream
ConnClose ==
    /\ ws.pc = "open"
    /\ ws' = [ws EXCEPT !.pc = "closed"]
    /\ UNCHANGED <<tokens, allowUnauth, agentSet, conn, resp, managerLock, chan>>

\* cfg is the trigger configuration of the agent's Config, trigger_config the
\* one MethodHandlers holds, used the one the last decision read
NoChannelMessage(cfg, trigger_config) ==
    [cfg |-> cfg, trigger_config |-> trigger_config, used |-> cfg,
     pc |-> "idle", path |-> "none",
     msg |-> [platform |-> "none", author |-> <<>>, channel |-> <<>>, content |-> <<>>],
     key |-> <<>>, accepted |-> FALSE, invoked |-> FALSE, turnOk |-> FALSE,
     reply |-> "", sendOk |-> FALSE, sent |-> <<>>]

(***************************************************************************)
(* Channel messages: from an adapter to the orchestrator and back          *)
(***************************************************************************)
\* DiscordAdapter::start: the source is the author, the channel is metadata
IncomingMessage(author, channel, content) ==
    [platform |-> "discord", author |-> author, channel |-> channel,
     content |-> content]

ChannelContents ==
    { <<"hello", " ", "world">>, <<"@", "agent", " ", "hi">>, <<"agent", " ", "hi">>,
      <<"say", " ", "@", "bot">>, <<"Help", " ", "me">> }

ChannelMessages ==
    {IncomingMessage(<<"u1">>, channel, content) :
        channel \in {<<"c1">>, <<"c2">>}, content \in ChannelContents}

ChannelLists ==
    { [disabled |-> {}, enabled |-> {}],
      [disabled |-> {ChannelKey("discord", <<"c1">>)}, enabled |-> {}],
      [disabled |-> {}, enabled |-> {ChannelKey("discord", <<"c2">>)}],
      [disabled |-> {ChannelKey("discord", <<"u1">>)}, enabled |-> {}] }

TriggerConfigs ==
    {TriggerConfig(mode, {<<"@", "agent">>, <<"@", "bot">>}, {<<"help">>},
                   lists.enabled, lists.disabled) :
        mode \in {"always", "mention", "keyword"}, lists \in ChannelLists}

Sent(adapter, target, text) == [adapter |-> adapter, target |-> target, text |-> text]

\* cli handle_gateway, the Discord listener: from the message to the
\* trigger decision inside Agent::process_channel_message
CliIngest ==
    /\ chan.pc \in {"idle", "done"}
    /\ \E msg \in ChannelMessages :
          LET trigger_source_id == IF msg.channel = None THEN msg.author
                                   ELSE msg.channel
              accepted ==
                  /\ validate_session_id(<<msg.platform, ":">> \o trigger_source_id) = "ok"
                  /\ should_respond_to_message(chan.cfg, msg.platform,
                                               trigger_source_id, msg.content)
          IN chan' = [NoChannelMessage(chan.cfg, chan.trigger_config) EXCEPT
                        !.path = "cli", !.msg = msg,
                        !.key = ChannelKey(msg.platform, trigger_source_id),
                        !.accepted = accepted, !.invoked = accepted,
                        !.pc = IF accepted THEN "turn" ELSE "done"]
    /\ UNCHANGED <<tokens, allowUnauth, agentSet, conn, resp, managerLock, ws>>

\* MethodHandlers::set_trigger_config
SetTriggerConfig ==
    /\ \E config \in TriggerConfigs :
          /\ config # chan.trigger_config
          /\ chan' = [chan EXCEPT !.trigger_config = config]
    /\ UNCHANGED <<tokens, allowUnauth, agentSet, conn, resp, managerLock, ws>>

\* start_channel_listener, the loop body: a message of the stream is
\* published as an event
GwIngest ==
    /\ chan.pc \in {"idle", "done"}
    /\ managerLock = "listener"
    /\ \E msg \in ChannelMessages :
          /\ ws' = publish(ws, [name |-> "channel.message",
                                early |-> ws.pc = "accepted"])
          /\ chan' = [NoChannelMessage(chan.cfg, chan.trigger_config) EXCEPT
                        !.path = "gateway", !.msg = msg,
                        !.key = ChannelKey(msg.platform, msg.author),
                        !.pc = "get_trigger_config"]
    /\ UNCHANGED <<tokens, allowUnauth, agentSet, conn, resp, managerLock>>

\* the loop body: handlers.get_trigger_config().await and should_trigger_agent
GwGetTriggerConfig ==
    /\ chan.pc = "get_trigger_config"
    /\ LET source_id == chan.msg.author
           accepted == should_trigger_agent(chan.msg.platform, source_id,
                                            chan.msg.content, chan.trigger_config)
       IN chan' = [chan EXCEPT !.used = chan.trigger_config,
                               !.accepted = accepted,
                               !.pc = IF accepted THEN "get_agent" ELSE "done"]
    /\ UNCHANGED <<tokens, allowUnauth, agentSet, conn, resp, managerLock, ws>>

\* the loop body: handlers.get_agent().await and the spawn of
\* process_agent_response
GwGetAgent ==
    /\ chan.pc = "get_agent"
    /\ chan' = [chan EXCEPT !.invoked = agentSet,
                            !.pc = IF agentSet THEN "turn" ELSE "done"]
    /\ UNCHANGED <<tokens, allowUnauth, agentSet, conn, resp, managerLock, ws>>

\* the orchestrator turn ends; what each path does with its result
TurnCompletes ==
    /\ chan.pc = "turn"
    /\ \E turnOk \in BOOLEAN, reply \in {"", "pong"} :
          chan' = [chan EXCEPT
                     !.turnOk = turnOk,
                     !.reply = IF turnOk THEN reply ELSE "",
                     !.pc = IF ~turnOk THEN "done"
                            ELSE IF chan.path = "cli" /\ reply = "" THEN "done"
                            ELSE "reply"]
    /\ UNCHANGED <<tokens, allowUnauth, agentSet, conn, resp, managerLock, ws>>

\* the reply goes out: discord.send_message on the cli path, and on the
\* gateway path the manager lock, resolve_target and send_message
SendReply ==
    /\ chan.pc = "reply"
    /\ chan.path = "gateway" => managerLock = "free"
    /\ \E sendOk \in BOOLEAN :
          LET target == IF chan.path = "cli" THEN chan.msg.channel
                        ELSE chan.msg.author
          IN chan' = [chan EXCEPT
                        !.pc = "done", !.sendOk = sendOk,
                        !.sent = IF sendOk
                                 THEN <<Sent(chan.msg.platform, target, chan.reply)>>
                                 ELSE <<>>]
    /\ UNCHANGED <<tokens, allowUnauth, agentSet, conn, resp, managerLock, ws>>

(***************************************************************************)
(* The modelled LLM answers from a plan: `rounds` tool-calling responses,  *)
(* cycling through `pattern`, then `final`.                                *)
(***************************************************************************)
\* chunks as they arrive, and what the LLM meant by them: the ids of its
\* tool calls in index order and its text
Planned(chunks, calls, text) ==
    [open |-> TRUE, chunks |-> chunks, calls |-> calls, text |-> text]

TR_read ==
    Planned(<< DataChunk("", << Delta(0, Some("c1"), "read_file", "{path:/d/x}") >>),
               DoneChunk >>,
            << "c1" >>, "")

TR_split ==
    Planned(<< DataChunk("wor", << Delta(1, Some("c2"), "exec", "{command:cd,") >>),
               BrokenChunk,
               DataChunk("king", << Delta(0, Some("c1"), "read_file", "{path:/missing}"),
                                    Delta(1, <<>>, "", "args:[nodir]}") >>),
               DoneChunk >>,
            << "c1", "c2" >>, "working")

TR_exec ==
    Planned(<< DataChunk("", << Delta(0, Some("c1"), "exec", "{command:ls,args:[&&,whoami]}"),
                                Delta(1, Some("c2"), "srv__t", "{}") >>),
               TransportErrorChunk >>,
            << "c1", "c2" >>, "")

TR_cd ==
    Planned(<< DataChunk("moving", << Delta(0, Some("c1"), "exec", "{command:cd,args:[/d]}") >>),
               DataChunk("", << Delta(2, Some("c3"), "file_info", "{path:nodir}"),
                                Delta(1, Some("c2"), "frobnicate", "{}") >>),
               DoneChunk >>,
            << "c1", "c2", "c3" >>, "moving")

TR_write ==
    Planned(<< DataChunk("", << Delta(0, Some("c1"), "write_file", "{path:n/f,content:hi}"),
                                Delta(1, Some("c2"), "read_file", "{path:n/f}"),
                                Delta(2, Some("c3"), "web_search", "{query:a&b}") >>),
               DoneChunk >>,
            << "c1", "c2", "c3" >>, "")

\* a second chunk that carries the id "" for the call of index 0
TR_refused ==
    Planned(<< DataChunk("", << Delta(0, Some("c1"), "write_file", "{}"),
                                Delta(1, Some("c2"), "a__", ""),
                                Delta(2, Some("c3"), "write_file",
                                      "{path:/d/x/f,content:hi}") >>),
               DataChunk("", << Delta(0, Some(""), "", ""),
                                Delta(1, <<>>, "b", "{}") >>),
               DoneChunk >>,
            << "", "c2", "c3" >>, "")

F_done ==
    Planned(<< DataChunk("do", <<>>), DataChunk("ne", <<>>), DoneChunk >>, <<>>, "done")
F_empty == Planned(<< DoneChunk >>, <<>>, "")
F_open_error == [open |-> FALSE, chunks |-> <<>>, calls |-> <<>>, text |-> ""]

ToolResponses == {TR_read, TR_split, TR_exec, TR_cd, TR_write}
FinalResponses == {F_done, F_empty, F_open_error}

Patterns ==
    {<<r>> : r \in ToolResponses} \cup
    {<<TR_read, TR_split>>, <<TR_split, TR_cd>>, <<TR_cd, TR_exec>>, <<TR_exec, TR_read>>,
     <<TR_write, TR_refused>>}

MaxToolRounds == 16

Plans ==
    [pattern : Patterns, rounds : 0..MaxToolRounds, final : FinalResponses]

\* the n-th response of the LLM in a turn
PlannedResponse(plan, n) ==
    IF n <= plan.rounds
    THEN plan.pattern[((n - 1) % Len(plan.pattern)) + 1]
    ELSE plan.final

UserMessages == {"", "read it"}

OldMessage == Message("assistant", "earlier", <<>>, "")

NoTurn ==
    [pc |-> "idle", user_message |-> "", base |-> 0, loop_count |-> 0,
     llm_calls |-> 0, final_response_content |-> "", tool_calls_vec |-> <<>>,
     next |-> 1, inflight |-> 0, pending |-> ToolErr("", <<>>, <<>>),
     lastTool |-> ToolErr("", <<>>, <<>>), result |-> "pending",
     entry |-> "none", base0 |-> 0, saved |-> FALSE]

\* process_message: the user message is appended when it is not empty
StartTurn ==
    /\ turn.pc = "idle"
    /\ \E user_message \in UserMessages :
          /\ session' = IF user_message # ""
                        THEN Append(session, Message("user", user_message, <<>>, ""))
                        ELSE session
          /\ turn' = [turn EXCEPT !.pc = "loop", !.user_message = user_message,
                                  !.base = Len(session), !.base0 = Len(session),
                                  !.entry = "direct"]
    /\ UNCHANGED <<llmPlan, securityLevel, host, cwd, execOp, storeVars, gatewayVars, extVars>>

AlwaysConfig == TriggerConfig("always", {}, {}, {}, {})

MentionConfig == TriggerConfig("mention", {<<"@", "agent">>, <<"@", "bot">>}, {}, {}, {})

ChannelTurnConfigs == {AlwaysConfig, MentionConfig}

ChannelTurnContents == {<<>>, <<"read", " ", "it">>}

ChannelTurnSources == {<<"c1">>, <<"c1", "/", "x">>}

\* Agent::process_channel_message up to the head of the loop of
\* process_message
ProcessChannelMessage ==
    /\ turn.pc = "idle"
    /\ \E content \in ChannelTurnContents, cfg \in ChannelTurnConfigs,
          source_id \in ChannelTurnSources :
          LET session_id == <<"discord", ":">> \o source_id
              text == Flatten(content)
              with_user == Append(session, Message("user", text, <<>>, ""))
              entered == [turn EXCEPT !.entry = "channel", !.user_message = text,
                                      !.base0 = Len(session)]
          IN IF validate_session_id(session_id) # "ok"
             THEN /\ session' = session
                  /\ turn' = [entered EXCEPT !.pc = "returned", !.result = "error"]
             ELSE IF ~should_respond_to_message(cfg, "discord", source_id, content)
             THEN /\ session' = with_user
                  /\ turn' = [entered EXCEPT !.pc = "returned", !.result = "ok"]
             ELSE /\ session' = IF text # ""
                                THEN Append(with_user, Message("user", text, <<>>, ""))
                                ELSE with_user
                  /\ turn' = [entered EXCEPT !.pc = "loop", !.base = Len(with_user)]
    /\ UNCHANGED <<llmPlan, securityLevel, host, cwd, execOp, storeVars, gatewayVars, extVars>>

\* Agent::process_channel_message after process_message returned Ok
ChannelSaveSession ==
    /\ turn.entry = "channel"
    /\ turn.pc = "done"
    /\ turn.result = "ok"
    /\ turn' = [turn EXCEPT !.pc = "returned", !.saved = TRUE]
    /\ UNCHANGED <<session, llmPlan, securityLevel, host, cwd, execOp, storeVars, gatewayVars, extVars>>

\* one pass of the loop from its head to the assistant message
LLMCall ==
    /\ turn.pc = "loop"
    /\ loop_continues(turn.loop_count)
    /\ LET response == PlannedResponse(llmPlan, turn.llm_calls + 1)
           acc == ConsumeStream([content |-> "", calls |-> << >>], response.chunks)
           vec == reassemble_tool_calls(acc.calls)
       IN IF ~response.open
          THEN /\ turn' = [turn EXCEPT !.pc = "done", !.result = "error",
                                       !.loop_count = @ + 1, !.llm_calls = @ + 1]
               /\ UNCHANGED session
          ELSE /\ session' = Append(session, assistant_message(acc.content, vec))
               /\ turn' = [turn EXCEPT
                             !.loop_count = @ + 1,
                             !.llm_calls = @ + 1,
                             !.final_response_content =
                                 IF acc.content # "" THEN acc.content ELSE @,
                             !.tool_calls_vec = vec,
                             !.next = 1,
                             !.pc = IF vec = <<>> THEN "done" ELSE "tools",
                             !.result = IF vec = <<>> THEN "ok" ELSE @]
    /\ UNCHANGED <<llmPlan, securityLevel, host, cwd, execOp, storeVars, gatewayVars, extVars>>

\* the loop ends at the cap
ReturnAtCap ==
    /\ turn.pc = "loop"
    /\ ~loop_continues(turn.loop_count)
    /\ turn' = [turn EXCEPT !.pc = "done", !.result = "ok"]
    /\ UNCHANGED <<session, llmPlan, securityLevel, host, cwd, execOp, storeVars, gatewayVars, extVars>>

\* tool_router.route(..) for the next tool call of the response
DispatchTool ==
    /\ turn.pc = "tools"
    /\ turn.inflight = 0
    /\ LET tc == turn.tool_calls_vec[turn.next]
           r == execute_tool_call(securityLevel, cwd, tc.name, tc.arguments)
       IN /\ turn' = [turn EXCEPT !.inflight = turn.next, !.pending = r]
          /\ cwd' = r.cwd
          /\ host' = host_after(cwd, tc.name, tc.arguments)
          /\ execOp' = ExecRecord("router", ExecCall(<<tc.name>>, <<>>), cwd, r)
    /\ UNCHANGED <<session, llmPlan, securityLevel, storeVars, gatewayVars, extVars>>

\* the tool message for the call that was dispatched
CompleteTool ==
    /\ turn.pc = "tools"
    /\ turn.inflight # 0
    /\ session' = Append(session,
                         tool_message(turn.pending,
                                      turn.tool_calls_vec[turn.inflight].id))
    /\ turn' = [turn EXCEPT
                  !.inflight = 0,
                  !.next = @ + 1,
                  !.lastTool = turn.pending,
                  !.pc = IF turn.next = Len(turn.tool_calls_vec) THEN "loop" ELSE @]
    /\ UNCHANGED <<llmPlan, securityLevel, host, cwd, execOp, storeVars, gatewayVars, extVars>>

(***************************************************************************)
(* Broadcast buses: the adapter's message bus and the gateway's event bus  *)
(***************************************************************************)
MaxMessages == 4
MaxBots == 1
BusCapacity == 2

\* tokio::sync::broadcast as the code uses it: a ring that keeps the last
\* `capacity` values; `sent` is everything the ring ever accepted.  The
\* receiver that channel() returns is dropped at once by both callers.
broadcast_channel(capacity) == [capacity |-> capacity, sent |-> <<>>, receivers |-> 0]

\* Sender::send: with no receiver the value is returned in an Err and dropped
broadcast_send(b, v) ==
    IF b.receivers = 0 THEN b ELSE [b EXCEPT !.sent = Append(@, v)]

\* Sender::subscribe: the new receiver sees only what is sent from now on
broadcast_subscribe(b) == [b EXCEPT !.receivers = @ + 1]

Receiver(b) == Len(b.sent) + 1

Unsubscribe(b) == [b EXCEPT !.receivers = @ - 1]

\* Receiver::recv at cursor `next`: Lagged(n) moves the cursor to the oldest
\* value the ring still holds
broadcast_recv(b, next) ==
    LET oldest == Len(b.sent) - b.capacity + 1
    IN  IF next < oldest
        THEN [kind |-> "lagged", value |-> oldest - next, next |-> oldest]
        ELSE IF next <= Len(b.sent)
             THEN [kind |-> "ok", value |-> b.sent[next], next |-> next + 1]
             ELSE [kind |-> "pending", value |-> 0, next |-> next]

NoSubscriber == [pc |-> "none", next |-> 0, lagged |-> FALSE]

NoBus(wiring) ==
    [ wiring    |-> wiring,
      message_tx |-> broadcast_channel(BusCapacity),
      tx_lock   |-> "free",
      event_tx  |-> broadcast_channel(BusCapacity),
      stream    |-> NoSubscriber,
      event_rx  |-> NoSubscriber,
      ingested  |-> 0,
      bots      |-> 0,
      handled   |-> <<>>,
      published |-> <<>>,
      forwarded |-> <<>> ]

\* the Discord gateway task gets a MessageCreate: bot authors are skipped, for
\* the others the IncomingMessage is built and message_tx.lock().await is
\* taken; the task handles one event at a time
DiscordMessageCreate ==
    /\ bus.tx_lock = "free"
    /\ \E bot \in BOOLEAN :
          IF bot
          THEN /\ bus.bots < MaxBots
               /\ bus' = [bus EXCEPT !.bots = @ + 1]
          ELSE /\ bus.ingested < MaxMessages
               /\ bus' = [bus EXCEPT !.tx_lock = "ingest"]

\* the gateway task under the guard: the IncomingMessage (here its ordinal)
\* is sent on message_tx and the guard is dropped
IngestSend ==
    /\ bus.tx_lock = "ingest"
    /\ bus' = [bus EXCEPT !.tx_lock = "free",
                          !.ingested = @ + 1,
                          !.message_tx = broadcast_send(@, bus.ingested + 1)]

\* DiscordAdapter::on_message: message_tx.try_lock(), then a new receiver
\* wrapped in a stream, or stream::empty() when the lock is taken
on_message ==
    /\ bus.stream.pc = "none"
    /\ IF bus.tx_lock = "free"
       THEN bus' = [bus EXCEPT !.stream = [pc |-> "open", next |-> Receiver(bus.message_tx),
                                           lagged |-> FALSE],
                               !.message_tx = broadcast_subscribe(@)]
       ELSE bus' = [bus EXCEPT !.stream = [pc |-> "empty", next |-> 0, lagged |-> FALSE]]

\* one turn of the loop over the adapter's stream: `while let Ok(msg) =
\* rx.recv().await` yields the message, and any Err ends the stream.  The
\* gateway's listener publishes a channel.message event for the message; the
\* listener of the gateway command hands it to the agent and publishes nothing.
StreamNext ==
    /\ bus.stream.pc = "open"
    /\ LET r == broadcast_recv(bus.message_tx, bus.stream.next)
       IN  /\ r.kind # "pending"
           /\ IF r.kind = "ok"
              THEN bus' = [bus EXCEPT
                      !.stream.next = r.next,
                      !.handled = Append(@, r.value),
                      !.published = IF bus.wiring = "server" THEN Append(@, r.value) ELSE @,
                      !.event_tx = IF bus.wiring = "server"
                                   THEN broadcast_send(@, r.value) ELSE @]
              ELSE bus' = [bus EXCEPT
                      !.stream = [pc |-> "ended", next |-> r.next, lagged |-> TRUE],
                      !.message_tx = Unsubscribe(@)]

\* GatewayServer::start accepts a connection and subscribes it to event_tx
AcceptSubscribe ==
    /\ bus.event_rx.pc = "none"
    /\ bus' = [bus EXCEPT !.event_rx = [pc |-> "open", next |-> Receiver(bus.event_tx),
                                        lagged |-> FALSE],
                          !.event_tx = broadcast_subscribe(@)]

\* the event arm of handle_connection's select: an event is forwarded as a
\* frame, Lagged is logged and the loop goes on
ConnRecvEvent ==
    /\ bus.event_rx.pc = "open"
    /\ LET r == broadcast_recv(bus.event_tx, bus.event_rx.next)
       IN  /\ r.kind # "pending"
           /\ IF r.kind = "ok"
              THEN bus' = [bus EXCEPT !.event_rx.next = r.next,
                                      !.forwarded = Append(@, r.value)]
              ELSE bus' = [bus EXCEPT !.event_rx.next = r.next,
                                      !.event_rx.lagged = TRUE]

(***************************************************************************)
(* The life of a gateway connection's task                                 *)
(***************************************************************************)
NoLink == [transport |-> "open", task |-> "running", subscribed |-> TRUE]

\* the peer closes, or the socket fails
TransportCloses ==
    /\ link.task = "running"
    /\ link.transport = "open"
    /\ link' = [link EXCEPT !.transport = "closed"]

\* handle_connection's select loop takes a request only between requests:
\* handle_request is awaited inside the arm that read the frame
LinkOpen == link.task = "running" /\ link.transport = "open"

\* the loop, back in select! or sending the response, finds the transport
\* closed (None, Err or a failed send): the task returns and its receiver of
\* the event bus is dropped with it
TaskEnds ==
    /\ link.task = "running"
    /\ link.transport = "closed"
    /\ conn.pc \in {"idle", "responded"}
    /\ link' = [link EXCEPT !.task = "ended", !.subscribed = FALSE]

(***************************************************************************)
(* The session file as bytes: concurrent loads and saves                   *)
(***************************************************************************)
Nul == "nul"

\* serde_json::to_string_pretty(session): the messages between the braces of
\* the object; one atom stands for a run of bytes
Serialize(messages) == <<"{">> \o messages \o <<"}">>

IsMessageAtom(a) == a \notin {"{", "}", Nul}

\* serde_json::from_str::<Session>: only a complete object parses
Parses(content) ==
    /\ Len(content) >= 2
    /\ content[1] = "{"
    /\ content[Len(content)] = "}"
    /\ \A i \in 2..(Len(content) - 1) : IsMessageAtom(content[i])

Messages(content) == SubSeq(content, 2, Len(content) - 1)

\* write(2) of `chunk` at offset `off` of a file that holds `content`; a write
\* past the end leaves a hole of zero bytes
WriteAt(content, off, chunk) ==
    LET n == IF Len(content) > off + Len(chunk) THEN Len(content) ELSE off + Len(chunk)
    IN  [i \in 1..n |->
            IF i > off /\ i <= off + Len(chunk) THEN chunk[i - off]
            ELSE IF i <= Len(content) THEN content[i]
            ELSE Nul]

Requests == {"A", "B"}

\* what Agent::process_message adds to the session of request r
TurnMessages(r) == IF r = "A" THEN <<"qa", "ta", "ra">> ELSE <<"qb", "rb">>

\* the text agent_execute returns as "response"
Reply(r) == TurnMessages(r)[Len(TurnMessages(r))]

NoRequest ==
    [pc |-> "idle", loaded |-> <<>>, loadOk |-> TRUE, sess |-> <<>>,
     data |-> <<>>, off |-> 0, response |-> "none"]

OldTranscript == <<"old">>

NoFs ==
    [ exists  |-> FALSE,
      content |-> <<>>,
      req     |-> [r \in Requests |-> NoRequest],
      written |-> {},
      lastSaved |-> "none" ]

\* a store in which an earlier request already saved OldTranscript
SavedFs ==
    [NoFs EXCEPT !.exists = TRUE, !.content = Serialize(OldTranscript),
                 !.written = {OldTranscript}]

\* agent_execute: SessionManager::get_or_create_session, path.exists() and
\* read_to_string taken as one read of the file
FsGetOrCreate(r) ==
    /\ fs.req[r].pc = "idle"
    /\ IF ~fs.exists
       THEN fs' = [fs EXCEPT !.req[r].pc = "loaded",
                             !.req[r].loaded = <<>>, !.req[r].sess = <<>>]
       ELSE IF Parses(fs.content)
       THEN fs' = [fs EXCEPT !.req[r].pc = "loaded",
                             !.req[r].loaded = Messages(fs.content),
                             !.req[r].sess = Messages(fs.content)]
       ELSE fs' = [fs EXCEPT !.req[r].pc = "responded",
                             !.req[r].loadOk = FALSE,
                             !.req[r].loaded = fs.content,
                             !.req[r].response = "Failed to get session"]

\* agent_execute: agent.process_message(&mut sess, prompt)
FsProcessMessage(r) ==
    /\ fs.req[r].pc = "loaded"
    /\ fs' = [fs EXCEPT !.req[r].pc = "processed",
                        !.req[r].sess = @ \o TurnMessages(r)]

\* save_session, tokio::fs::write: the file is created or truncated
FsOpenTruncate(r) ==
    /\ fs.req[r].pc = "processed"
    /\ fs' = [fs EXCEPT !.exists = TRUE,
                        !.content = <<>>,
                        !.written = @ \cup {fs.req[r].sess},
                        !.req[r].pc = "writing",
                        !.req[r].data = Serialize(fs.req[r].sess),
                        !.req[r].off = 0]

\* write_all: one write(2) of the next k bytes at the descriptor's offset;
\* after the last one the file is closed and agent_execute returns the reply
FsWrite(r) ==
    /\ fs.req[r].pc = "writing"
    /\ \E k \in 1..(Len(fs.req[r].data) - fs.req[r].off) :
        LET off == fs.req[r].off
            chunk == SubSeq(fs.req[r].data, off + 1, off + k)
            done == off + k = Len(fs.req[r].data)
        IN  fs' = [fs EXCEPT
                     !.content = WriteAt(@, off, chunk),
                     !.req[r].off = off + k,
                     !.req[r].pc = IF done THEN "responded" ELSE "writing",
                     !.req[r].response = IF done THEN Reply(r) ELSE @,
                     !.lastSaved = IF done THEN r ELSE @]

(***************************************************************************)
(* The desktop app's turn and its cancel flag                              *)
(***************************************************************************)
NoGui ==
    [cancel_flag |-> FALSE, is_loading |-> FALSE, task |-> "none",
     result |-> "none", value |-> "", chat |-> <<>>]

Stopped == "[Stopped]"

\* DesktopApp::on_send with a non-empty input: the flag is cleared and
\* run_agent is spawned; one turn of the window is followed
on_send ==
    /\ ~gui.is_loading
    /\ gui.task = "none"
    /\ gui' = [gui EXCEPT !.cancel_flag = FALSE, !.is_loading = TRUE,
                          !.task = "running", !.chat = Append(@, "user")]

\* DesktopApp::on_stop
on_stop ==
    /\ gui.is_loading
    /\ gui' = [gui EXCEPT !.cancel_flag = TRUE, !.is_loading = FALSE,
                          !.chat = Append(@, Stopped)]

\* run_agent returns before any turn: Config::load or Agent::new failed; the
\* flag is not read
run_agent_fails ==
    /\ gui.task = "running"
    /\ turn.pc = "idle"
    /\ gui' = [gui EXCEPT !.task = "returned", !.result = "Err", !.value = "error"]

\* run_agent calls agent.process_message on a new session
RunAgentStarts == gui.task = "running" /\ session = <<>> /\ StartTurn

\* the steps of the orchestrator's turn belong to the task run_agent spawned
RunAgentStep(A) == gui.task = "running" /\ A

\* run_agent after process_message returned: the flag is read here
run_agent_returns ==
    /\ gui.task = "running"
    /\ turn.pc = "done"
    /\ gui' = [gui EXCEPT
          !.task = "returned",
          !.result = IF gui.cancel_flag \/ turn.result = "ok" THEN "Ok" ELSE "Err",
          !.value = IF gui.cancel_flag THEN Stopped
                    ELSE IF turn.result = "ok" THEN turn.final_response_content
                    ELSE "error"]

\* the closure on_send spawned, once task.await has the result of run_agent
completion ==
    /\ gui.task = "returned"
    /\ LET pushed == IF gui.result = "Ok"
                     THEN (IF gui.value # "" THEN <<gui.value>> ELSE <<>>)
                     ELSE (IF ~gui.cancel_flag THEN <<gui.value>> ELSE <<>>)
       IN gui' = [gui EXCEPT !.task = "completed", !.is_loading = FALSE,
                             !.chat = @ \o pushed]

(***************************************************************************)
(* gearclaw_llm: the items of chat_completion_stream                       *)
(***************************************************************************)
MaxSseEvents == 3

DoneSentinel == "[DONE]"

\* what eventsource() yields: an event with its data, or a transport error
SseEvent(data) == [kind |-> "event", data |-> data]
SseFailure == [kind |-> "failure", data |-> ""]

\* data that deserializes as ChatCompletionStreamResponse, and data that does not
ChunkJson == "{choices:[{delta:{content:hi}}]}"
BadJson == "{choices:"

SseInputs == {SseEvent(ChunkJson), SseEvent(BadJson), SseEvent(DoneSentinel), SseFailure}

StreamOk(chunk) == [ok |-> TRUE, error |-> "none", chunk |-> chunk]
StreamErr(error, chunk) == [ok |-> FALSE, error |-> error, chunk |-> chunk]

\* the closure chat_completion_stream maps over the events
stream_item(event) ==
    IF event.kind = "event"
    THEN IF event.data = DoneSentinel
         THEN StreamErr("Response(Stream finished)", DoneChunk)
         ELSE IF event.data = ChunkJson
              THEN StreamOk(DataChunk("hi", <<>>))
              ELSE StreamErr("Json", BrokenChunk)
    ELSE StreamErr("Request(stream error)", TransportErrorChunk)

NoLlm == [events |-> <<>>, polled |-> 0, items |-> <<>>]

\* the caller's stream.next().await
StreamPoll ==
    /\ llm.polled < Len(llm.events)
    /\ llm' = [llm EXCEPT !.polled = @ + 1,
                          !.items = Append(@, stream_item(llm.events[llm.polled + 1]))]

(***************************************************************************)
(* DiscordAdapter::chunk_message and send_message                          *)
(***************************************************************************)
MaxTextLen == 4
MaxLimit == 3

Newline == "\n"

\* a text is a sequence of characters; Wide stands for a character that
\* UTF-8 encodes in two bytes
Wide == "e-acute"

TextChars == {"a", Wide, Newline}

ByteLen1(c) == IF c = Wide THEN 2 ELSE 1

\* str::len(): the length in bytes
RECURSIVE ByteLen(_)
ByteLen(t) == IF t = <<>> THEN 0 ELSE ByteLen1(Head(t)) + ByteLen(Tail(t))

\* str::lines(): the pieces between line feeds, without a last empty piece
RECURSIVE SplitLines(_, _)
SplitLines(t, current) ==
    IF t = <<>> THEN <<current>>
    ELSE IF Head(t) = Newline THEN <<current>> \o SplitLines(Tail(t), <<>>)
    ELSE SplitLines(Tail(t), Append(current, Head(t)))

lines(t) ==
    LET pieces == SplitLines(t, <<>>)
    IN  IF pieces[Len(pieces)] = <<>> THEN SubSeq(pieces, 1, Len(pieces) - 1) ELSE pieces

\* the for loop of chunk_message over the lines still to come
RECURSIVE ChunkLoop(_, _, _, _)
ChunkLoop(ls, current, chunks, limit) ==
    IF ls = <<>>
    THEN IF current # <<>> THEN Append(chunks, current) ELSE chunks
    ELSE LET line == Head(ls) IN
         IF ByteLen(current) + ByteLen(line) + 1 > limit
         THEN ChunkLoop(Tail(ls), line,
                        IF current # <<>> THEN Append(chunks, current) ELSE chunks,
                        limit)
         ELSE ChunkLoop(Tail(ls),
                        (IF current # <<>> THEN Append(current, Newline) ELSE current) \o line,
                        chunks, limit)

chunk_message(message, limit) ==
    IF ByteLen(message) <= limit THEN <<message>>
    ELSE ChunkLoop(lines(message), <<>>, <<>>, limit)

NoOutbox == [message |-> <<>>, limit |-> 1, pc |-> "idle", chunks |-> <<>>, sent |-> <<>>]

\* send_message up to the loop: the text is chunked
SendMessageChunks ==
    /\ outbox.pc = "idle"
    /\ outbox' = [outbox EXCEPT !.pc = "sending",
                                !.chunks = chunk_message(outbox.message, outbox.limit)]

\* one turn of the loop of send_message: create_message for the next chunk;
\* an HTTP error ends the call
SendNextChunk ==
    /\ outbox.pc = "sending"
    /\ \E httpOk \in BOOLEAN :
         IF Len(outbox.sent) = Len(outbox.chunks)
         THEN /\ httpOk
              /\ outbox' = [outbox EXCEPT !.pc = "ok"]
         ELSE IF httpOk
         THEN outbox' = [outbox EXCEPT !.sent = Append(@, outbox.chunks[Len(outbox.sent) + 1])]
         ELSE outbox' = [outbox EXCEPT !.pc = "failed"]

(***************************************************************************)
(* gearclaw install-skill                                                  *)
(***************************************************************************)
MaxAudit == 2

TrustPolicies == {"local_only", "trusted_only", "allow_untrusted"}

SkillSource(kind, trusted) == [kind |-> kind, trusted |-> trusted]

SkillSources == {SkillSource(k, t) : k \in {"local_dir", "git_repo"}, t \in BOOLEAN}

\* the skills root: missing, without the skill, or with a copy of it that an
\* earlier install ("old") or this one ("new") put there; "hollow" is a
\* target directory with nothing in it
SkillsRoots == {"absent", "empty", "old"}

\* where discover_skills finds the skill: in a directory of its own, or in
\* the very directory the install targets, which the local-default source
\* (location = skills_path) gives for a skill installed before
SkillDirs == {"outside", "target"}

\* an install policy that lets every source through
is_install_allowed_always(skill, policy) == TRUE

is_install_allowed_by_policy(skill, policy) ==
    CASE policy = "local_only" -> skill.kind = "local_dir"
      [] policy = "trusted_only" -> skill.trusted
      [] OTHER -> TRUE

\* the characters of a declared skill name: a letter, the three marks the
\* sanitizer keeps, and two characters it does not keep
NameChars == {"a", "_", ".", "-", "/", " "}

MaxNameLen == 4

KeptChar(ch) == ch \in {"a", "_", ".", "-"}

\* str::replace("--", "-"): the matches are found from the left and do not
\* overlap
RECURSIVE ReplaceDashes(_)
ReplaceDashes(t) ==
    IF Len(t) < 2 THEN t
    ELSE IF t[1] = "-" /\ t[2] = "-"
         THEN <<"-">> \o ReplaceDashes(SubSeq(t, 3, Len(t)))
         ELSE <<t[1]>> \o ReplaceDashes(Tail(t))

\* while out.contains("--") { out = out.replace("--", "-") }
RECURSIVE CoalesceDashes(_)
CoalesceDashes(t) ==
    IF Contains(t, <<"-", "-">>) THEN CoalesceDashes(ReplaceDashes(t)) ELSE t

\* str::trim_matches('-')
RECURSIVE TrimDashes(_)
TrimDashes(t) ==
    IF t = <<>> THEN t
    ELSE IF t[1] = "-" THEN TrimDashes(Tail(t))
    ELSE IF t[Len(t)] = "-" THEN TrimDashes(SubSeq(t, 1, Len(t) - 1))
    ELSE t

sanitize_skill_dir_name_untrimmed(name) ==
    LET out == CoalesceDashes([i \in 1..Len(name) |->
                                 IF KeptChar(name[i]) THEN name[i] ELSE "-"])
    IN IF out = <<>> THEN None ELSE out

sanitize_skill_dir_name(name) ==
    LET out == TrimDashes(CoalesceDashes([i \in 1..Len(name) |->
                                 IF KeptChar(name[i]) THEN name[i] ELSE "-"]))
    IN IF out = <<>> THEN None ELSE out

InstallCall(matches, force, dry_run, gitOk, name) ==
    [matches |-> matches, force |-> force, dry_run |-> dry_run,
     gitOk |-> gitOk, name |-> name]

NoInstall ==
    [call |-> InstallCall(0, FALSE, FALSE, TRUE, <<"a">>), outcome |-> "none",
     dir |-> None, rootBefore |-> "absent", auditBefore |-> 0]

NoSkills ==
    [policy |-> "local_only", source |-> SkillSource("local_dir", TRUE),
     root |-> "absent", skill_dir |-> "outside", cache |-> FALSE, audit |-> 0,
     op |-> NoInstall]

\* discover_skills: a git source is synced before anything is matched or
\* checked, into skill_source_cache_root: the directory skill_sources_cache
\* in the parent of the skills path, which the configured path here has
SyncedCache(s, call) == s.cache \/ (s.source.kind = "git_repo" /\ call.gitOk)

TargetExists(root) == root \in {"old", "new", "hollow"}

\* the target directory holds the skill's files
HoldsSkill(root) == root \in {"old", "new"}

\* target_root.join(install_dir_name): the sanitizer returns "." and ".."
\* as they are, and the path then names the skills root or its parent
TargetPlace(dir) ==
    IF dir = <<".">> THEN "root"
    ELSE IF dir = <<".", ".">> THEN "parent"
    ELSE "child"

\* target_dir.exists(), after create_dir_all(target_root)
TargetDirExists(s, call) ==
    \/ TargetPlace(sanitize_skill_dir_name(call.name)) # "child"
    \/ TargetExists(s.root)

\* remove_dir_all(target_dir) empties the directory and then removes it by
\* its path.  For a path that ends in "." the removal is an error; for one
\* that ends in ".." the path no longer resolves, which remove_dir_all
\* passes over.
RemovalFails(place) == place = "root"

\* copy_dir_recursive(selected.skill_dir, target_dir): create_dir_all(to),
\* then read_dir(from), which fails when the removal took the source with
\* it: the clone of a git source is in the source cache, in the parent of
\* the skills root
CopyFails(s, place) == place = "parent" /\ s.source.kind = "git_repo"

\* handle_install_skill from the discovery to its return
InstallOutcome(s, call) ==
    IF s.source.kind = "git_repo" /\ ~call.gitOk THEN "sync_error"
    ELSE IF call.matches = 0 THEN "not_found"
    ELSE IF call.matches > 1 THEN "ambiguous"
    ELSE IF ~is_install_allowed_by_policy(s.source, s.policy) THEN "rejected"
    ELSE IF sanitize_skill_dir_name(call.name) = None THEN "name_error"
    ELSE IF TargetDirExists(s, call) /\ ~call.force THEN "exists"
    ELSE IF call.dry_run THEN "dry_run"
    ELSE "installed"

\* the skills root after the call: create_dir_all(target_root) comes right
\* after the policy check, the copy at the end
RootAfter(s, outcome, place) ==
    IF outcome \in {"sync_error", "not_found", "ambiguous", "rejected"} THEN s.root
    ELSE IF outcome = "io_error"
    THEN \* the removal emptied the skills root; or it emptied the parent and
         \* create_dir_all("<root>/..") of the copy made the root again
         "empty"
    ELSE IF outcome = "installed" /\ place = "parent"
    THEN \* create_dir_all("<root>/..") makes the root again, the files of
         \* the skill go to the parent
         "empty"
    ELSE IF outcome = "installed"
    THEN \* remove_dir_all(target_dir) under --force, then copy_dir_recursive:
         \* create_dir_all(to) and a copy of what read_dir(from) lists
         IF s.skill_dir = "target" THEN "hollow" ELSE "new"
    ELSE IF s.root = "absent" THEN "empty"
    ELSE s.root

handle_install_skill(call) ==
    LET place == TargetPlace(sanitize_skill_dir_name(call.name))
        reached == InstallOutcome(skills, call)
        outcome == IF reached = "installed"
                      /\ (RemovalFails(place) \/ CopyFails(skills, place))
                   THEN "io_error" ELSE reached
        \* the source cache and the audit log are in the parent of the root
        parentEmptied == reached = "installed" /\ place = "parent"
    IN
    /\ skills.audit < MaxAudit
    /\ skills' = [skills EXCEPT
          !.cache = IF parentEmptied THEN FALSE ELSE SyncedCache(skills, call),
          !.root = RootAfter(skills, outcome, place),
          !.audit = IF parentEmptied THEN (IF outcome = "installed" THEN 1 ELSE 0)
                    ELSE IF outcome = "installed" THEN @ + 1 ELSE @,
          !.op = [call |-> call, outcome |-> outcome,
                  dir |-> IF outcome \in {"exists", "dry_run", "installed", "io_error"}
                          THEN sanitize_skill_dir_name(call.name) ELSE None,
                  rootBefore |-> skills.root, auditBefore |-> skills.audit]]

(***************************************************************************)
(* The install audit log (crates/cli/src/main.rs): a record is one line,   *)
(* the timestamp and key=value fields separated by "|", every value        *)
(* escaped by sanitize_log_field; list-audit reads the lines back.         *)
(***************************************************************************)
Backslash == "\\"

Bar == "|"

ValueChars == {"a", "n", " ", Backslash, Bar, Newline}

MaxValueLen == 3

\* str::replace(ch, rep) for a pattern of one character
RECURSIVE ReplaceChar(_, _, _)
ReplaceChar(t, ch, rep) ==
    IF t = <<>> THEN <<>>
    ELSE (IF Head(t) = ch THEN rep ELSE <<Head(t)>>) \o ReplaceChar(Tail(t), ch, rep)

sanitize_log_field(value) ==
    ReplaceChar(ReplaceChar(ReplaceChar(value,
        Backslash, <<Backslash, Backslash>>),
        Newline, <<Backslash, "n">>),
        Bar, <<Backslash, Bar>>)

\* the line append_install_audit_log writes, with the skill and the status
\* of its fields
AuditLine(skill, status) ==
    <<"0", Bar, "skill", "=">> \o sanitize_log_field(skill)
        \o <<Bar, "status", "=">> \o sanitize_log_field(status) \o <<Newline>>

RECURSIVE SplitEscaped(_, _, _, _)
SplitEscaped(t, parts, current, escape) ==
    IF t = <<>>
    THEN Append(parts, IF escape THEN Append(current, Backslash) ELSE current)
    ELSE LET ch == Head(t) IN
         IF escape
         THEN SplitEscaped(Tail(t), parts,
                  CASE ch = "n" -> Append(current, Newline)
                    [] ch = Bar -> Append(current, Bar)
                    [] ch = Backslash -> Append(current, Backslash)
                    [] OTHER -> current \o <<Backslash, ch>>,
                  FALSE)
         ELSE IF ch = Backslash THEN SplitEscaped(Tail(t), parts, current, TRUE)
         ELSE IF ch = Bar THEN SplitEscaped(Tail(t), Append(parts, current), <<>>, FALSE)
         ELSE SplitEscaped(Tail(t), parts, Append(current, ch), FALSE)

split_escaped_audit_fields(line) == SplitEscaped(line, <<>>, <<>>, FALSE)

\* str::trim
RECURSIVE TrimWhitespace(_)
TrimWhitespace(t) ==
    IF t = <<>> THEN t
    ELSE IF IsWhitespace(t[1]) THEN TrimWhitespace(Tail(t))
    ELSE IF IsWhitespace(t[Len(t)]) THEN TrimWhitespace(SubSeq(t, 1, Len(t) - 1))
    ELSE t

\* str::split_once('='): the place of the first "=", 0 without one
SplitOnce(part) ==
    IF \E i \in 1..Len(part) : part[i] = "="
    THEN CHOOSE i \in 1..Len(part) :
             part[i] = "=" /\ \A j \in 1..(i - 1) : part[j] # "="
    ELSE 0

\* str::parse::<u64> of the timestamp
ParsesAsU64(part) == part # <<>> /\ \A i \in 1..Len(part) : part[i] \in {"0"}

\* the BTreeMap of a record as its key-value pairs in the order of the
\* line; the keys of a line written by AuditLine are distinct
RECURSIVE AuditFields(_)
AuditFields(parts) ==
    IF parts = <<>> THEN <<>>
    ELSE LET part == Head(parts)
             eq == SplitOnce(part)
         IN (IF eq = 0 THEN <<>>
             ELSE << <<TrimWhitespace(SubSeq(part, 1, eq - 1)),
                       TrimWhitespace(SubSeq(part, eq + 1, Len(part)))>> >>)
            \o AuditFields(Tail(parts))

\* Some(record) as a one-element sequence, None as the empty one
parse_audit_record_line(line) ==
    LET parts == split_escaped_audit_fields(line) IN
    IF parts = <<>> \/ ~ParsesAsU64(Head(parts)) THEN <<>>
    ELSE << [timestamp |-> Head(parts), fields |-> AuditFields(Tail(parts))] >>

RECURSIVE ParseLines(_)
ParseLines(ls) ==
    IF ls = <<>> THEN <<>>
    ELSE (IF TrimWhitespace(Head(ls)) = <<>> THEN <<>>
          ELSE parse_audit_record_line(Head(ls)))
         \o ParseLines(Tail(ls))

NoAuditLog == [pc |-> "idle", skill |-> <<>>, file |-> <<>>, records |-> <<>>]

\* append_install_audit_log: the file is opened for append
append_install_audit_log(skill) ==
    /\ auditlog.pc = "idle"
    /\ auditlog' = [auditlog EXCEPT
          !.pc = "written",
          !.skill = skill,
          !.file = @ \o AuditLine(skill, <<"installed">>)]

\* handle_list_audit without filters: every line of the file that is not
\* blank and parses
handle_list_audit ==
    /\ auditlog.pc = "written"
    /\ auditlog' = [auditlog EXCEPT
          !.pc = "read",
          !.records = ParseLines(lines(auditlog.file))]

(***************************************************************************)
(* The gateway's channel listener and the turns it spawns                  *)
(* (crates/gateway/src/server.rs, start_channel_listener and               *)
(* process_agent_response).  The two messages come from one source, so     *)
(* both turns use one session id, and each turn is a task of its own:      *)
(* get_or_create_session, process_message, save_session.                   *)
(***************************************************************************)
\* the content of the channel message that starts turn r
MessageContent(r) == IF r = "A" THEN <<"@", "agent", " ", "hi">> ELSE <<"@", "bot">>

\* only the first message mentions "@agent"
AgentMentionConfig == TriggerConfig("mention", {<<"@", "agent">>}, {}, {}, {})

ListenerConfigs == {AlwaysConfig, MentionConfig, AgentMentionConfig}

NoListener == [stream |-> <<>>, cfg |-> AlwaysConfig, agent |-> TRUE, spawned |-> <<>>]

Spawned(r) == \E i \in 1..Len(listener.spawned) : listener.spawned[i] = r

\* one round of the loop over the adapter's stream: the trigger check, then
\* tokio::spawn of process_agent_response, which the loop does not await
ListenerRound ==
    /\ listener.stream # <<>>
    /\ LET r == Head(listener.stream)
           should_trigger == should_trigger_agent("discord", <<"c">>,
                                                  MessageContent(r), listener.cfg)
       IN listener' = [listener EXCEPT
              !.stream = Tail(@),
              !.spawned = IF should_trigger /\ listener.agent
                          THEN Append(@, r) ELSE @]

(***************************************************************************)
(* The mutex of the gateway's ChannelManager (tokio::sync::Mutex, which    *)
(* serves its waiters first in, first out) and the tasks that lock it:     *)
(* the task that lists the platforms, one listener per platform, the task  *)
(* that sends an agent reply, and the handler of a send request.           *)
(***************************************************************************)
Platforms == {"discord", "telegram"}

MutexTasks == {"platforms", "reply", "send"} \cup Platforms

\* a task is idle, "turn" (the reply task, running the agent's turn before
\* it locks), waiting, holding or done

NoMutex == [holder |-> "none", queue |-> <<>>, pc |-> [t \in MutexTasks |-> "idle"]]

\* channel_manager.lock().await, first part: the task joins the waiters
MutexLock(t) ==
    /\ mutex.pc[t] = "idle"
    /\ mutex' = [mutex EXCEPT !.pc[t] = "waiting", !.queue = Append(@, t)]

\* channel_manager.lock().await, second part: the mutex is free and the task
\* is the first waiter
MutexAcquire(t) ==
    /\ mutex.pc[t] = "waiting"
    /\ mutex.holder = "none"
    /\ Head(mutex.queue) = t
    /\ mutex' = [mutex EXCEPT !.pc[t] = "holding", !.holder = t, !.queue = Tail(@)]

\* the guard is dropped
MutexUnlock(t) ==
    /\ mutex.pc[t] = "holding"
    /\ mutex' = [mutex EXCEPT !.pc[t] = "done", !.holder = "none"]

\* start_channel_listener: the listener of a platform is spawned when the
\* outer task has read the list of platforms and dropped its guard
ListenerLocks(p) == mutex.pc["platforms"] = "done" /\ MutexLock(p)

\* the listener's loop, under its guard: a message arrives on the stream and
\* process_agent_response is spawned, which starts with the agent's turn
ListenerMessage(p) ==
    /\ mutex.pc[p] = "holding"
    /\ mutex.pc["reply"] = "idle"
    /\ mutex' = [mutex EXCEPT !.pc["reply"] = "turn"]

\* process_agent_response from the session to the lock: the turn and the
\* save done, the task calls channel_manager.lock().await, whoever holds the
\* guard by then; a turn or a save that fails ends the task without the lock
ReplyLocks(turnOk) ==
    /\ mutex.pc["reply"] = "turn"
    /\ mutex' = IF turnOk
                THEN [mutex EXCEPT !.pc["reply"] = "waiting",
                                   !.queue = Append(@, "reply")]
                ELSE [mutex EXCEPT !.pc["reply"] = "done"]

\* the adapter's stream ends (the adapter stopped, or its subscriber lagged):
\* the loop ends and the guard is dropped
ListenerStreamOver(p) == MutexUnlock(p)

(***************************************************************************)
(* The desktop window over several turns (crates/gui/src/app.rs).  Every   *)
(* on_send spawns run_agent and a completion closure of its own; all of    *)
(* them share the one cancel flag of the window.                           *)
(***************************************************************************)
MaxTurns == 2

\* what agent.process_message gives run_agent: a response, an empty
\* response, or an error
TurnResults == {"response", "", "error"}

ChatMessage(role, content, t) == [role |-> role, content |-> content, turn |-> t]

NoTask == [pc |-> "none", stopped |-> FALSE, result |-> "none", value |-> ""]

MaxSessions == 2

\* DesktopApp::new: one chat, shown
NoUi ==
    [ is_loading  |-> FALSE,
      cancel_flag |-> FALSE,
      messages    |-> <<>>,
      sessions    |-> 1,
      active_session |-> 0,
      session_messages |-> << >>,
      sent        |-> 0,
      stops       |-> 0,
      tasks       |-> [t \in 1..MaxTurns |-> NoTask] ]

\* the body of DesktopApp::on_send with a non-empty input, on the window u
SendFrom(u) ==
    LET t == u.sent + 1 IN
    [u EXCEPT
       !.messages = Append(@, ChatMessage("user", "content", t)),
       !.is_loading = TRUE,
       !.cancel_flag = FALSE,
       !.sent = t,
       !.tasks[t].pc = "running"]

\* DesktopApp::on_send with a non-empty input
OnSend ==
    /\ ~ui.is_loading
    /\ ui.sent < MaxTurns
    /\ ui' = SendFrom(ui)

\* DesktopApp::on_stop, which the window offers while it is loading
OnStop ==
    /\ ui.is_loading
    /\ ui' = [ui EXCEPT
          !.cancel_flag = TRUE,
          !.is_loading = FALSE,
          !.stops = @ + 1,
          !.tasks[ui.sent].stopped = TRUE,
          !.messages = Append(@, ChatMessage("assistant", Stopped, ui.sent))]

\* session_messages.insert(active_session, take(messages))
Stored(u) ==
    [i \in DOMAIN u.session_messages \cup {u.active_session} |->
        IF i = u.active_session THEN u.messages ELSE u.session_messages[i]]

\* DesktopApp::new_session
NewSession ==
    /\ ui.sessions < MaxSessions
    /\ ui' = [ui EXCEPT
          !.session_messages = Stored(ui),
          !.sessions = @ + 1,
          !.active_session = ui.sessions,
          !.messages = <<>>]

\* DesktopApp::switch_session
SwitchSession(index) ==
    /\ index < ui.sessions
    /\ index # ui.active_session
    /\ ui' = [ui EXCEPT
          !.session_messages =
              [i \in DOMAIN Stored(ui) \ {index} |-> Stored(ui)[i]],
          !.messages = IF index \in DOMAIN Stored(ui) THEN Stored(ui)[index]
                       ELSE <<>>,
          !.active_session = index]

\* DesktopApp::regenerate_message for the message at message_index, counted
\* from 0: the chat is cut there and the last user message before it is sent
\* again, which on_send refuses while the window is loading
RegenerateMessage(message_index) ==
    /\ message_index <= Len(ui.messages)
    /\ \E i \in 1..message_index : ui.messages[i].role = "user"
    /\ ui.is_loading \/ ui.sent < MaxTurns
    /\ LET cut == [ui EXCEPT !.messages = SubSeq(@, 1, message_index)]
       IN ui' = IF ui.is_loading THEN cut ELSE SendFrom(cut)

\* run_agent of turn t returns before process_message is called: Config::load
\* or Agent::new failed, and the flag is not read
RunAgentFails(t) ==
    /\ ui.tasks[t].pc = "running"
    /\ ui' = [ui EXCEPT
          !.tasks[t].pc = "returned",
          !.tasks[t].result = "Err",
          !.tasks[t].value = "error"]

\* run_agent of turn t from the return of process_message: the flag is read
\* once, then the result is passed on
RunAgentReturns(t, result) ==
    /\ ui.tasks[t].pc = "running"
    /\ ui' = [ui EXCEPT
          !.tasks[t].pc = "returned",
          !.tasks[t].result = IF ui.cancel_flag THEN "Ok"
                              ELSE IF result = "error" THEN "Err" ELSE "Ok",
          !.tasks[t].value = IF ui.cancel_flag THEN Stopped ELSE result]

\* the closure on_send spawned for turn t, once its task has a result
Completion(t) ==
    /\ ui.tasks[t].pc = "returned"
    /\ LET task == ui.tasks[t]
           pushed == IF task.result = "Ok"
                     THEN (IF task.value # ""
                           THEN <<ChatMessage("assistant", task.value, t)>> ELSE <<>>)
                     ELSE (IF ~ui.cancel_flag
                           THEN <<ChatMessage("error", task.value, t)>> ELSE <<>>)
       IN ui' = [ui EXCEPT
             !.tasks[t].pc = "completed",
             !.messages = @ \o pushed,
             !.is_loading = FALSE]

(***************************************************************************)
(* Specifications                                                          *)
(***************************************************************************)
StoreIdle == files = << >> /\ storeOp = NoOp

GatewayIdle ==
    /\ tokens = << >>
    /\ allowUnauth = FALSE
    /\ agentSet = FALSE
    /\ conn = Idle
    /\ resp = NoResponse
    /\ managerLock = "free"
    /\ ws = NoConnection
    /\ chan = NoChannelMessage(AlwaysConfig, MentionConfig)

ExecIdle ==
    /\ securityLevel = "full"
    /\ host = NoHost
    /\ cwd = RootDir
    /\ execOp = NoExec

AgentIdle ==
    /\ session = <<>>
    /\ turn = NoTurn
    /\ llmPlan = [pattern |-> <<TR_read>>, rounds |-> 0, final |-> F_done]

ExtIdle == bus = NoBus("server") /\ link = NoLink /\ fs = NoFs /\ gui = NoGui /\ llm = NoLlm /\ outbox = NoOutbox /\ skills = NoSkills /\ auditlog = NoAuditLog /\ listener = NoListener /\ mutex = NoMutex /\ ui = NoUi

StoreInit == StoreIdle /\ GatewayIdle /\ ExecIdle /\ AgentIdle /\ ExtIdle

GetOrCreateSession ==
    \E id \in SessionIdInputs :
        get_or_create_session(id) /\ UNCHANGED <<gatewayVars, execVars, agentVars, extVars>>
SaveSession ==
    \E id \in SessionIdInputs : save_session(id) /\ UNCHANGED <<gatewayVars, execVars, agentVars, extVars>>
DeleteSession ==
    \E id \in SessionIdInputs : delete_session(id) /\ UNCHANGED <<gatewayVars, execVars, agentVars, extVars>>
LegacyGetOrCreateSession ==
    \E id \in SessionIdInputs :
        legacy_get_or_create_session(id) /\ UNCHANGED <<gatewayVars, execVars, agentVars, extVars>>
LegacySaveSession ==
    \E id \in SessionIdInputs :
        legacy_save_session(id) /\ UNCHANGED <<gatewayVars, execVars, agentVars, extVars>>
LegacyDeleteSession ==
    \E id \in SessionIdInputs :
        legacy_delete_session(id) /\ UNCHANGED <<gatewayVars, execVars, agentVars, extVars>>

StoreNext ==
    \/ GetOrCreateSession
    \/ SaveSession
    \/ DeleteSession
    \/ LegacyGetOrCreateSession
    \/ LegacySaveSession
    \/ LegacyDeleteSession

SpecStore == StoreInit /\ [][StoreNext]_vars

GatewayInit ==
    /\ StoreIdle
    /\ ExtIdle
    /\ ExecIdle
    /\ AgentIdle
    /\ tokens = << >>
    /\ allowUnauth \in BOOLEAN
    /\ agentSet \in BOOLEAN
    /\ conn = Idle
    /\ resp = NoResponse
    /\ managerLock \in {"free", "listener"}
    /\ ws = NoConnection
    /\ chan = NoChannelMessage(AlwaysConfig, MentionConfig)

Register == \E t \in RegisterInputs : register(t) /\ UNCHANGED <<storeVars, execVars, agentVars, extVars>>
Revoke == \E t \in RevokeInputs : revoke(t) /\ UNCHANGED <<storeVars, execVars, agentVars, extVars>>
HandleRequest ==
    \E req \in GatewayRequests : GwReceive(req) /\ UNCHANGED <<storeVars, execVars, agentVars, extVars>>
UpdateLastUsed == GwUpdateLastUsed /\ UNCHANGED <<storeVars, execVars, agentVars, extVars>>
Dispatch == GwDispatch /\ UNCHANGED <<storeOp, execVars, agentVars, extVars>>
AgentTurn == GwAgentTurn /\ UNCHANGED <<storeOp, execVars, agentVars, extVars>>
AgentSave == GwAgentSave /\ UNCHANGED <<storeOp, execVars, agentVars, extVars>>
AgentIsSet == SetAgent /\ UNCHANGED <<storeVars, execVars, agentVars, extVars>>
StreamEnds == ListenerStreamEnds /\ UNCHANGED <<storeVars, execVars, agentVars, extVars>>

GatewayNext ==
    \/ Register
    \/ Revoke
    \/ HandleRequest
    \/ UpdateLastUsed
    \/ Dispatch
    \/ AgentTurn
    \/ AgentSave
    \/ AgentIsSet
    \/ StreamEnds

SpecGateway == GatewayInit /\ [][GatewayNext]_vars

\* the server's own steps are taken when they can be; clients, token
\* administration and the adapters' streams are under no obligation
SpecGatewayLive ==
    /\ GatewayInit
    /\ [][GatewayNext]_vars
    /\ WF_vars(UpdateLastUsed)
    /\ WF_vars(Dispatch)
    /\ WF_vars(AgentTurn)
    /\ WF_vars(AgentSave)

ExecInit ==
    /\ StoreIdle
    /\ ExtIdle
    /\ GatewayIdle
    /\ AgentIdle
    /\ securityLevel \in {"deny", "allowlist", "full"}
    /\ host = NoHost
    /\ cwd = RootDir
    /\ execOp = NoExec

ExecNext ==
    \/ AgentExecTool
    \/ CoreExecCommand
    \/ ToolsExecCommand

SpecExec == ExecInit /\ [][ExecNext]_vars

ConnInit ==
    /\ StoreIdle
    /\ ExtIdle
    /\ ExecIdle
    /\ AgentIdle
    /\ GatewayIdle

ConnNext ==
    \/ (ConnAccept /\ UNCHANGED <<storeVars, execVars, agentVars, extVars>>)
    \/ (PublishEvent /\ UNCHANGED <<storeVars, execVars, agentVars, extVars>>)
    \/ (ConnHandshake /\ UNCHANGED <<storeVars, execVars, agentVars, extVars>>)
    \/ (ConnRequest /\ UNCHANGED <<storeVars, execVars, agentVars, extVars>>)
    \/ (ConnRespond /\ UNCHANGED <<storeVars, execVars, agentVars, extVars>>)
    \/ (ConnForwardEvent /\ UNCHANGED <<storeVars, execVars, agentVars, extVars>>)
    \/ (ConnClose /\ UNCHANGED <<storeVars, execVars, agentVars, extVars>>)

SpecConn == ConnInit /\ [][ConnNext]_vars

ChannelInit ==
    /\ StoreIdle
    /\ ExtIdle
    /\ ExecIdle
    /\ AgentIdle
    /\ tokens = << >>
    /\ allowUnauth = FALSE
    /\ agentSet = FALSE
    /\ conn = Idle
    /\ resp = NoResponse
    /\ ws = NoConnection
    /\ managerLock \in {"free", "listener"}
    /\ \E cfg \in TriggerConfigs : chan = NoChannelMessage(cfg, MentionConfig)

ChannelNext ==
    \/ (CliIngest /\ UNCHANGED <<storeVars, execVars, agentVars, extVars>>)
    \/ (GwIngest /\ UNCHANGED <<storeVars, execVars, agentVars, extVars>>)
    \/ (GwGetTriggerConfig /\ UNCHANGED <<storeVars, execVars, agentVars, extVars>>)
    \/ (GwGetAgent /\ UNCHANGED <<storeVars, execVars, agentVars, extVars>>)
    \/ (SetTriggerConfig /\ UNCHANGED <<storeVars, execVars, agentVars, extVars>>)
    \/ AgentIsSet
    \/ (TurnCompletes /\ UNCHANGED <<storeVars, execVars, agentVars, extVars>>)
    \/ (SendReply /\ UNCHANGED <<storeVars, execVars, agentVars, extVars>>)
    \/ StreamEnds

SpecChannel == ChannelInit /\ [][ChannelNext]_vars

AgentInit ==
    /\ StoreIdle
    /\ ExtIdle
    /\ GatewayIdle
    /\ securityLevel \in {"deny", "allowlist", "full"}
    /\ host \in Hosts
    /\ cwd = RootDir
    /\ execOp = NoExec
    /\ session \in {<<>>, <<OldMessage>>}
    /\ turn = NoTurn
    /\ llmPlan \in Plans
    /\ host # NoHost => llmPlan.rounds <= MaxFaultRounds

AgentNext ==
    \/ StartTurn
    \/ ProcessChannelMessage
    \/ ChannelSaveSession
    \/ LLMCall
    \/ ReturnAtCap
    \/ DispatchTool
    \/ CompleteTool

SpecAgent == AgentInit /\ [][AgentNext]_vars


BusOthers == <<storeVars, gatewayVars, execVars, agentVars, link, fs, gui, llm, outbox, skills, auditlog, listener, mutex, ui>>

BusInit ==
    /\ StoreIdle
    /\ skills = NoSkills
    /\ outbox = NoOutbox
    /\ GatewayIdle
    /\ ExecIdle
    /\ AgentIdle
    /\ link = NoLink
    /\ fs = NoFs
    /\ gui = NoGui
    /\ llm = NoLlm
    /\ bus \in {NoBus("server"), NoBus("cli")}
    /\ auditlog = NoAuditLog
    /\ listener = NoListener
    /\ mutex = NoMutex
    /\ ui = NoUi

BusNext ==
    \/ (DiscordMessageCreate /\ UNCHANGED BusOthers)
    \/ (IngestSend /\ UNCHANGED BusOthers)
    \/ (on_message /\ UNCHANGED BusOthers)
    \/ (StreamNext /\ UNCHANGED BusOthers)
    \/ (AcceptSubscribe /\ UNCHANGED BusOthers)
    \/ (ConnRecvEvent /\ UNCHANGED BusOthers)

SpecBus == BusInit /\ [][BusNext]_vars

CloseOthers == <<storeVars, gatewayVars, execVars, agentVars, bus, fs, gui, llm, outbox, skills, auditlog, listener, mutex, ui>>

CloseInit == GatewayInit

LinkRequest == LinkOpen /\ HandleRequest
LinkCloses == TransportCloses /\ UNCHANGED CloseOthers
LinkTaskEnds == TaskEnds /\ UNCHANGED CloseOthers

CloseNext ==
    \/ Register
    \/ Revoke
    \/ LinkRequest
    \/ UpdateLastUsed
    \/ Dispatch
    \/ AgentTurn
    \/ AgentSave
    \/ AgentIsSet
    \/ StreamEnds
    \/ LinkCloses
    \/ LinkTaskEnds

\* the server's own steps are taken when they can be; the peer, token
\* administration and the adapters' streams are under no obligation
SpecCloseLive ==
    /\ CloseInit
    /\ [][CloseNext]_vars
    /\ WF_vars(UpdateLastUsed)
    /\ WF_vars(Dispatch)
    /\ WF_vars(AgentTurn)
    /\ WF_vars(AgentSave)
    /\ WF_vars(LinkTaskEnds)

FsOthers == <<storeVars, gatewayVars, execVars, agentVars, bus, link, gui, llm, outbox, skills, auditlog, listener, mutex, ui>>

FsInit ==
    /\ StoreIdle
    /\ skills = NoSkills
    /\ outbox = NoOutbox
    /\ GatewayIdle
    /\ ExecIdle
    /\ AgentIdle
    /\ bus = NoBus("server")
    /\ link = NoLink
    /\ gui = NoGui
    /\ llm = NoLlm
    /\ fs \in {NoFs, SavedFs}
    /\ auditlog = NoAuditLog
    /\ listener = NoListener
    /\ mutex = NoMutex
    /\ ui = NoUi

FsNext ==
    \/ \E r \in Requests : FsGetOrCreate(r) /\ UNCHANGED FsOthers
    \/ \E r \in Requests : FsProcessMessage(r) /\ UNCHANGED FsOthers
    \/ \E r \in Requests : FsOpenTruncate(r) /\ UNCHANGED FsOthers
    \/ \E r \in Requests : FsWrite(r) /\ UNCHANGED FsOthers

SpecFs == FsInit /\ [][FsNext]_vars

GuiOthers == <<storeVars, gatewayVars, execVars, agentVars, bus, link, fs, llm, outbox, skills, auditlog, listener, mutex, ui>>

GuiInit ==
    /\ StoreIdle
    /\ skills = NoSkills
    /\ outbox = NoOutbox
    /\ GatewayIdle
    /\ bus = NoBus("server")
    /\ link = NoLink
    /\ fs = NoFs
    /\ gui = NoGui
    /\ llm = NoLlm
    /\ securityLevel = "full"
    /\ host = NoHost
    /\ cwd = RootDir
    /\ execOp = NoExec
    /\ session = <<>>
    /\ turn = NoTurn
    /\ llmPlan \in Plans
    /\ auditlog = NoAuditLog
    /\ listener = NoListener
    /\ mutex = NoMutex
    /\ ui = NoUi

GuiNext ==
    \/ (on_send /\ UNCHANGED GuiOthers)
    \/ (on_stop /\ UNCHANGED GuiOthers)
    \/ (run_agent_fails /\ UNCHANGED GuiOthers)
    \/ RunAgentStarts
    \/ RunAgentStep(LLMCall)
    \/ RunAgentStep(ReturnAtCap)
    \/ RunAgentStep(DispatchTool)
    \/ RunAgentStep(CompleteTool)
    \/ (run_agent_returns /\ UNCHANGED GuiOthers)
    \/ (completion /\ UNCHANGED GuiOthers)

SpecGui == GuiInit /\ [][GuiNext]_vars

LlmOthers == <<storeVars, gatewayVars, execVars, agentVars, bus, link, fs, gui, outbox, skills, auditlog, listener, mutex, ui>>

LlmInit ==
    /\ StoreIdle
    /\ skills = NoSkills
    /\ outbox = NoOutbox
    /\ GatewayIdle
    /\ ExecIdle
    /\ AgentIdle
    /\ bus = NoBus("server")
    /\ link = NoLink
    /\ fs = NoFs
    /\ gui = NoGui
    /\ \E events \in SeqsUpTo(SseInputs, MaxSseEvents) : llm = [NoLlm EXCEPT !.events = events]
    /\ auditlog = NoAuditLog
    /\ listener = NoListener
    /\ mutex = NoMutex
    /\ ui = NoUi

LlmNext == StreamPoll /\ UNCHANGED LlmOthers

SpecLlm == LlmInit /\ [][LlmNext]_vars

OutboxOthers == <<storeVars, gatewayVars, execVars, agentVars, bus, link, fs, gui, llm, skills, auditlog, listener, mutex, ui>>

OutboxInit ==
    /\ StoreIdle
    /\ skills = NoSkills
    /\ GatewayIdle
    /\ ExecIdle
    /\ AgentIdle
    /\ bus = NoBus("server")
    /\ link = NoLink
    /\ fs = NoFs
    /\ gui = NoGui
    /\ llm = NoLlm
    /\ \E message \in SeqsUpTo(TextChars, MaxTextLen), limit \in 1..MaxLimit :
           outbox = [NoOutbox EXCEPT !.message = message, !.limit = limit]
    /\ auditlog = NoAuditLog
    /\ listener = NoListener
    /\ mutex = NoMutex
    /\ ui = NoUi

OutboxNext ==
    \/ (SendMessageChunks /\ UNCHANGED OutboxOthers)
    \/ (SendNextChunk /\ UNCHANGED OutboxOthers)

SpecOutbox == OutboxInit /\ [][OutboxNext]_vars

SkillsOthers == <<storeVars, gatewayVars, execVars, agentVars, bus, link, fs, gui, llm, outbox, auditlog, listener, mutex, ui>>

SkillsInit ==
    /\ StoreIdle
    /\ GatewayIdle
    /\ ExecIdle
    /\ AgentIdle
    /\ bus = NoBus("server")
    /\ link = NoLink
    /\ fs = NoFs
    /\ gui = NoGui
    /\ llm = NoLlm
    /\ outbox = NoOutbox
    /\ \E policy \in TrustPolicies, source \in SkillSources, root \in SkillsRoots,
          skill_dir \in SkillDirs :
           /\ skill_dir = "target" => (source.kind = "local_dir" /\ root = "old")
           /\ skills = [NoSkills EXCEPT !.policy = policy, !.source = source,
                                        !.root = root, !.skill_dir = skill_dir]
    /\ auditlog = NoAuditLog
    /\ listener = NoListener
    /\ mutex = NoMutex
    /\ ui = NoUi

\* the names of the skills found: an ordinary one, one that sanitizes to
\* nothing, and ".."
InstallNames == {<<"a">>, <<"/">>, <<".", ".">>}

InstallSkill ==
    \E matches \in 0..2, force \in BOOLEAN, dry_run \in BOOLEAN,
       gitOk \in BOOLEAN, name \in InstallNames :
        \* a skill that lives in the target directory is found only while
        \* its files are there
        /\ (skills.skill_dir = "target" /\ ~HoldsSkill(skills.root)) => matches = 0
        /\ skills.skill_dir = "target" => name = <<"a">>
        /\ handle_install_skill(InstallCall(matches, force, dry_run, gitOk, name))
        /\ UNCHANGED SkillsOthers

SkillsNext == InstallSkill

SpecSkills == SkillsInit /\ [][SkillsNext]_vars

(***************************************************************************)
\* The installer applied to every declared name, under a policy and with a
\* source that let the install reach the naming step
NameInit ==
    /\ StoreIdle
    /\ GatewayIdle
    /\ ExecIdle
    /\ AgentIdle
    /\ bus = NoBus("server")
    /\ link = NoLink
    /\ fs = NoFs
    /\ gui = NoGui
    /\ llm = NoLlm
    /\ outbox = NoOutbox
    /\ \E root \in SkillsRoots :
           skills = [NoSkills EXCEPT !.policy = "allow_untrusted", !.root = root]
    /\ auditlog = NoAuditLog
    /\ listener = NoListener
    /\ mutex = NoMutex
    /\ ui = NoUi

\* one run of the command line
InstallNamed ==
    \E name \in SeqsUpTo(NameChars, MaxNameLen), force \in BOOLEAN :
        /\ skills.op.outcome = "none"
        /\ handle_install_skill(InstallCall(1, force, FALSE, TRUE, name))
        /\ UNCHANGED SkillsOthers

NameNext == InstallNamed

SpecName == NameInit /\ [][NameNext]_vars

\* One audit record written with any value of the skill field, then read
AuditOthers == <<storeVars, gatewayVars, execVars, agentVars, bus, link, fs, gui, llm, outbox, skills, listener, mutex, ui>>

AuditInit ==
    /\ StoreIdle
    /\ GatewayIdle
    /\ ExecIdle
    /\ AgentIdle
    /\ bus = NoBus("server")
    /\ link = NoLink
    /\ fs = NoFs
    /\ gui = NoGui
    /\ llm = NoLlm
    /\ outbox = NoOutbox
    /\ skills = NoSkills
    /\ auditlog = NoAuditLog
    /\ listener = NoListener
    /\ mutex = NoMutex
    /\ ui = NoUi

AppendAudit ==
    \E skill \in SeqsUpTo(ValueChars, MaxValueLen) :
        /\ append_install_audit_log(skill)
        /\ UNCHANGED AuditOthers

ListAudit == handle_list_audit /\ UNCHANGED AuditOthers

AuditNext == AppendAudit \/ ListAudit

SpecAudit == AuditInit /\ [][AuditNext]_vars

\* Two channel messages of one source, each turn a spawned task
TurnsOthers == <<storeVars, gatewayVars, execVars, agentVars, bus, link, gui, llm, outbox, skills, auditlog, mutex, ui>>

TurnsInit ==
    /\ StoreIdle
    /\ GatewayIdle
    /\ ExecIdle
    /\ AgentIdle
    /\ bus = NoBus("server")
    /\ link = NoLink
    /\ gui = NoGui
    /\ llm = NoLlm
    /\ outbox = NoOutbox
    /\ skills = NoSkills
    /\ auditlog = NoAuditLog
    /\ fs \in {NoFs, SavedFs}
    /\ \E cfg \in ListenerConfigs, agent \in BOOLEAN :
           listener = [NoListener EXCEPT !.stream = <<"A", "B">>,
                                         !.cfg = cfg, !.agent = agent]
    /\ mutex = NoMutex
    /\ ui = NoUi

ListenerSpawns == ListenerRound /\ UNCHANGED <<fs, TurnsOthers>>

TurnGetOrCreate ==
    \E r \in Requests :
        Spawned(r) /\ FsGetOrCreate(r) /\ UNCHANGED <<listener, TurnsOthers>>

TurnProcessMessage ==
    \E r \in Requests :
        Spawned(r) /\ FsProcessMessage(r) /\ UNCHANGED <<listener, TurnsOthers>>

TurnOpenTruncate ==
    \E r \in Requests :
        Spawned(r) /\ FsOpenTruncate(r) /\ UNCHANGED <<listener, TurnsOthers>>

TurnWrite ==
    \E r \in Requests :
        Spawned(r) /\ FsWrite(r) /\ UNCHANGED <<listener, TurnsOthers>>

TurnsNext ==
    \/ ListenerSpawns
    \/ TurnGetOrCreate
    \/ TurnProcessMessage
    \/ TurnOpenTruncate
    \/ TurnWrite

SpecTurns == TurnsInit /\ [][TurnsNext]_vars

\* The tasks that lock the ChannelManager.  The tokio scheduler runs every
\* task that can take a step, and a task that is not a listener drops its
\* guard after a bounded piece of work; nothing makes a message arrive or a
\* stream end.
MutexOthers == <<storeVars, gatewayVars, execVars, agentVars, bus, link, fs, gui, llm, outbox, skills, auditlog, listener, ui>>

MutexInit ==
    /\ StoreIdle
    /\ GatewayIdle
    /\ ExecIdle
    /\ AgentIdle
    /\ bus = NoBus("server")
    /\ link = NoLink
    /\ fs = NoFs
    /\ gui = NoGui
    /\ llm = NoLlm
    /\ outbox = NoOutbox
    /\ skills = NoSkills
    /\ auditlog = NoAuditLog
    /\ listener = NoListener
    /\ mutex = NoMutex
    /\ ui = NoUi

PlatformsTaskLocks == MutexLock("platforms") /\ UNCHANGED MutexOthers

SendHandlerLocks == MutexLock("send") /\ UNCHANGED MutexOthers

ListenerTaskLocks == \E p \in Platforms : ListenerLocks(p) /\ UNCHANGED MutexOthers

MessageArrives == \E p \in Platforms : ListenerMessage(p) /\ UNCHANGED MutexOthers

TurnEnds == \E turnOk \in BOOLEAN : ReplyLocks(turnOk) /\ UNCHANGED MutexOthers

Acquires == \E t \in MutexTasks : MutexAcquire(t) /\ UNCHANGED MutexOthers

Unlocks == \E t \in MutexTasks \ Platforms : MutexUnlock(t) /\ UNCHANGED MutexOthers

StreamOver == \E p \in Platforms : ListenerStreamOver(p) /\ UNCHANGED MutexOthers

MutexNext ==
    \/ PlatformsTaskLocks
    \/ SendHandlerLocks
    \/ ListenerTaskLocks
    \/ MessageArrives
    \/ TurnEnds
    \/ Acquires
    \/ Unlocks
    \/ StreamOver

SpecMutexLive ==
    /\ MutexInit
    /\ [][MutexNext]_vars
    /\ WF_vars(PlatformsTaskLocks)
    /\ WF_vars(ListenerTaskLocks)
    /\ WF_vars(Acquires)
    /\ WF_vars(Unlocks)

\* The Discord adapter with its gateway task and a listener that calls
\* on_message on another thread of the runtime
IngestInit == BusInit

IngestNext ==
    \/ (DiscordMessageCreate /\ UNCHANGED BusOthers)
    \/ (IngestSend /\ UNCHANGED BusOthers)
    \/ (on_message /\ UNCHANGED BusOthers)
    \/ (StreamNext /\ UNCHANGED BusOthers)

SpecIngest == IngestInit /\ [][IngestNext]_vars

\* The window with its user, who sends and stops, and the turns in the
\* background
UiOthers == <<storeVars, gatewayVars, execVars, agentVars, bus, link, fs, gui, llm, outbox, skills, auditlog, listener, mutex>>

UiInit ==
    /\ StoreIdle
    /\ GatewayIdle
    /\ ExecIdle
    /\ AgentIdle
    /\ bus = NoBus("server")
    /\ link = NoLink
    /\ fs = NoFs
    /\ gui = NoGui
    /\ llm = NoLlm
    /\ outbox = NoOutbox
    /\ skills = NoSkills
    /\ auditlog = NoAuditLog
    /\ listener = NoListener
    /\ mutex = NoMutex
    /\ ui = NoUi

UiSend == OnSend /\ UNCHANGED UiOthers

UiStop == OnStop /\ UNCHANGED UiOthers

UiRunAgentReturns ==
    \E t \in 1..MaxTurns, result \in TurnResults :
        RunAgentReturns(t, result) /\ UNCHANGED UiOthers

UiCompletion == \E t \in 1..MaxTurns : Completion(t) /\ UNCHANGED UiOthers

UiRunAgentFails == \E t \in 1..MaxTurns : RunAgentFails(t) /\ UNCHANGED UiOthers

UiNewSession == NewSession /\ UNCHANGED UiOthers

UiSwitchSession ==
    \E index \in 0..(MaxSessions - 1) : SwitchSession(index) /\ UNCHANGED UiOthers

UiRegenerate ==
    \E message_index \in 0..(3 * MaxTurns) :
        RegenerateMessage(message_index) /\ UNCHANGED UiOthers

UiNext ==
    \/ UiSend
    \/ UiStop
    \/ UiRunAgentReturns
    \/ UiRunAgentFails
    \/ UiCompletion
    \/ UiNewSession
    \/ UiSwitchSession
    \/ UiRegenerate

SpecUi == UiInit /\ [][UiNext]_vars

(***************************************************************************)
(* Properties of the session stores                                        *)
(***************************************************************************)

\* C1: every session id that the session store accepts in get-or-create,
\* save or delete resolves to a file path whose parent directory is exactly
\* the configured session root, also once the operating system has
\* resolved the path.
C1_PathInsideRoot ==
    (storeOp.store = "session" /\ storeOp.accepted) =>
        /\ storeOp.path # <<>>
        /\ ParentPath(storeOp.path) = RootDir
        /\ \A p \in storeOp.accessed : p # NoEnt /\ ParentPath(p) = RootDir

C1_Witness ==
    /\ storeOp.store = "session"
    /\ storeOp.op = "save"
    /\ storeOp.id = <<"a", ":", "1">>
    /\ storeOp.ok
    /\ storeOp.changed

\* The Session ID invariant in the words of the data model: non-empty, at
\* most 128 characters, ASCII alphanumerics plus - _ . :, no '..', no path
\* separator.
ViolatesSessionIdInvariant(id) ==
    \/ id = <<>>
    \/ StrLen(id) > 128
    \/ \E i \in 1..Len(id) : ~(IsAsciiAlnum(id[i]) \/ id[i] \in {"-", "_", ".", ":"})
    \/ HasDotDot(id)
    \/ HasChar(id, "/") \/ HasChar(id, "\\")

\* C2: a session id that violates the Session ID invariant is rejected by
\* every session store before any session file is read, created, written
\* or deleted.
C2_InvalidIdRejected ==
    (storeOp.store # "none" /\ ViolatesSessionIdInvariant(storeOp.id)) =>
        /\ ~storeOp.accepted
        /\ ~storeOp.ok
        /\ storeOp.accessed = {}
        /\ ~storeOp.changed

(***************************************************************************)
(* Properties of the gateway                                               *)
(***************************************************************************)

\* C3: with allow-unauthenticated off, a method handler runs and an ok
\* response is returned only for a request whose signature, with an optional
\* 'Bearer ' prefix removed, was in the token table when authorization ran;
\* a request with a missing or unknown token is answered UNAUTHORIZED and no
\* handler runs.
C3_AuthRequired ==
    ~allowUnauth =>
        /\ (conn.handlerRan \/ resp.ok) =>
               (conn.req.signature # None /\ conn.tokenInTable)
        /\ (conn.pc = "responded"
              /\ (conn.req.signature = None \/ ~conn.tokenInTable)) =>
               (~resp.ok /\ resp.code = "UNAUTHORIZED" /\ ~conn.handlerRan
                  /\ resp.id = conn.req.id)

C3_Witness ==
    /\ ~allowUnauth
    /\ conn.pc = "responded"
    /\ conn.req.signature = <<"Bearer ">> \o T1
    /\ conn.handlerRan
    /\ resp.ok

(***************************************************************************)
(* Command execution                                                       *)
(***************************************************************************)
ArgHasInjection(arg) ==
    \/ Contains(arg, <<"&", "&">>) \/ Contains(arg, <<"|", "|">>)
    \/ HasChar(arg, ";") \/ HasChar(arg, "|") \/ HasChar(arg, Backquote)
    \/ Contains(arg, <<"$", "(">>) \/ HasChar(arg, "\n") \/ HasChar(arg, "\r")

\* C4: in allowlist mode the executor behind the agent's exec tool spawns a
\* process only for a whitelisted binary whose arguments hold no injection
\* token; every other exec call is an error and spawns nothing.
C4_AllowlistBlocksInjection ==
    (execOp.executor = "core" /\ securityLevel = "allowlist") =>
        LET clean == /\ execOp.cmd \in SAFE_COMMANDS
                     /\ \A i \in 1..Len(execOp.args) : ~ArgHasInjection(execOp.args[i])
        IN /\ execOp.result.spawned # <<>> => clean
           /\ ~clean => (~execOp.result.ok /\ execOp.result.spawned = <<>>)

\* C5: every process started for an exec call is the named binary with the
\* caller's argument vector, never a shell, at every security level.
C5_DirectSpawn ==
    execOp.executor \in {"core", "tools", "agent"} =>
        \A i \in 1..Len(execOp.result.spawned) :
            /\ execOp.result.spawned[i].program = execOp.cmd
            /\ execOp.result.spawned[i].argv = execOp.args

\* C6: at security level deny every call of the exec tool fails, spawns no
\* process and leaves the working directory of the session unchanged.
C6_DenyBlocksExec ==
    (execOp.executor = "agent" /\ securityLevel = "deny") =>
        /\ ~(execOp.result.ok /\ execOp.result.success)
        /\ execOp.result.spawned = <<>>
        /\ cwd = execOp.cwdBefore

(***************************************************************************)
(* The agent loop                                                          *)
(***************************************************************************)
\* C7: a turn makes at most 15 LLM streaming calls, whatever the LLM answers.
C7_AtMost15LlmCalls == turn.llm_calls <= 15

C7_Witness ==
    /\ turn.pc = "done"
    /\ turn.llm_calls = 15
    /\ llmPlan.rounds > 15
    /\ turn.result = "ok"

Gained == SubSeq(session, turn.base + 1, Len(session))

Shape(m) ==
    [role |-> m.role,
     content |-> IF m.role = "tool" THEN "" ELSE m.content,
     calls |-> [i \in 1..Len(m.tool_calls) |-> m.tool_calls[i].id],
     tool_call_id |-> m.tool_call_id]

TextOrAbsent(text) == IF text = "" THEN NoText ELSE text

ExpectedRound(response) ==
    << [role |-> "assistant", content |-> TextOrAbsent(response.text),
        calls |-> response.calls, tool_call_id |-> ""] >>
    \o [i \in 1..Len(response.calls) |->
          [role |-> "tool", content |-> "", calls |-> <<>>,
           tool_call_id |-> response.calls[i]]]

RECURSIVE ExpectedRounds(_, _)
ExpectedRounds(plan, n) ==
    IF n > plan.rounds THEN <<>>
    ELSE ExpectedRound(PlannedResponse(plan, n)) \o ExpectedRounds(plan, n + 1)

ExpectedGain ==
    << [role |-> "user", content |-> turn.user_message, calls |-> <<>>,
        tool_call_id |-> ""] >>
    \o ExpectedRounds(llmPlan, 1)
    \o << [role |-> "assistant", content |-> TextOrAbsent(llmPlan.final.text),
           calls |-> <<>>, tool_call_id |-> ""] >>

ReadThenDone == [pattern |-> <<TR_read>>, rounds |-> 1, final |-> F_done]

\* C8: a turn with a non-empty user message, k tool-calling responses and
\* one response without tool calls adds to the session the user message,
\* per tool-calling response its assistant message and one tool message per
\* call, and the final assistant message; one read_file call and then the
\* text "done" leave exactly the four messages and the turn returns "done".
C8_TurnTranscript ==
    (/\ turn.pc = "done" /\ turn.result = "ok"
     /\ turn.user_message # ""
     /\ llmPlan.final.open
     /\ turn.llm_calls = llmPlan.rounds + 1) =>
        /\ [i \in 1..Len(Gained) |-> Shape(Gained[i])] = ExpectedGain
        /\ (llmPlan = ReadThenDone /\ turn.base = 0) =>
              /\ session =
                    << Message("user", turn.user_message, <<>>, ""),
                       Message("assistant", NoText,
                               << [index |-> 0, id |-> "c1", name |-> "read_file",
                                   arguments |-> "{path:/d/x}"] >>, ""),
                       Message("tool", "hello", <<>>, "c1"),
                       Message("assistant", "done", <<>>, "") >>
              /\ turn.final_response_content = "done"

C8_Witness ==
    /\ turn.pc = "done" /\ turn.result = "ok"
    /\ llmPlan = ReadThenDone
    /\ turn.base = 0
    /\ turn.user_message = "read it"
    /\ Len(session) = 4

ToolMessagesFor(vec, n) ==
    /\ Len(session) >= n + 1
    /\ session[Len(session) - n].role = "assistant"
    /\ session[Len(session) - n].tool_calls = vec
    /\ \A j \in 1..n :
          /\ session[Len(session) - n + j].role = "tool"
          /\ session[Len(session) - n + j].tool_call_id = vec[j].id

\* C9: tool calls are dispatched one at a time in ascending index order,
\* call i+1 only after the tool message of call i is in the session, and the
\* next LLM call only after every tool call of the response has its message.
C9_SequentialDispatch ==
    [][ /\ (turn.inflight = 0 /\ turn'.inflight # 0) =>
             /\ \A j \in 1..(Len(turn.tool_calls_vec) - 1) :
                   turn.tool_calls_vec[j].index < turn.tool_calls_vec[j + 1].index
             /\ turn'.inflight = turn.next
             /\ ToolMessagesFor(turn.tool_calls_vec, turn.next - 1)
        /\ (turn.inflight # 0) => turn'.inflight = 0
        /\ (turn'.llm_calls > turn.llm_calls /\ turn.tool_calls_vec # <<>>) =>
             /\ turn.inflight = 0
             /\ ToolMessagesFor(turn.tool_calls_vec, Len(turn.tool_calls_vec))
      ]_vars

C9_Witness ==
    /\ turn.inflight = 2
    /\ Len(turn.tool_calls_vec) = 2
    /\ turn.tool_calls_vec[1].name = "read_file"
    /\ turn.tool_calls_vec[2].name = "exec"
    /\ session[Len(session)].role = "tool"
    /\ session[Len(session)].tool_call_id = "c1"

JustCompleted ==
    /\ turn.inflight = 0
    /\ \/ turn.pc = "tools" /\ turn.next > 1
       \/ turn.pc = "loop" /\ turn.tool_calls_vec # <<>>

\* C10: a tool call that fails, by an error or by an unsuccessful result, is
\* recorded as a tool message with the text "Error: <message>".
C10_FailureRecorded ==
    (JustCompleted /\ ~(turn.lastTool.ok /\ turn.lastTool.success)) =>
        /\ session[Len(session)].role = "tool"
        /\ session[Len(session)].content = "Error: " \o turn.lastTool.error

HasTransportError(response) ==
    \/ ~response.open
    \/ \E i \in 1..Len(response.chunks) : response.chunks[i].kind = "transport"

\* C11: an LLM transport error, at the opening of the stream or on a chunk,
\* aborts the turn: the error is returned, no tool call of that response is
\* dispatched and no further LLM call is made.
C11_TransportErrorAborts ==
    (turn.llm_calls >= 1
        /\ HasTransportError(PlannedResponse(llmPlan, turn.llm_calls))) =>
            /\ turn.pc = "done"
            /\ turn.result = "error"
            /\ turn.inflight = 0

\* C12: when a response carries no tool calls the turn stops and returns
\* exactly the text of that response, the empty string if it had none.
C12_ReturnsTextOfLastResponse ==
    (/\ turn.pc = "done" /\ turn.result = "ok"
     /\ llmPlan.final.open
     /\ turn.llm_calls = llmPlan.rounds + 1) =>
        /\ session[Len(session)].role = "assistant"
        /\ session[Len(session)].tool_calls = <<>>
        /\ turn.final_response_content = llmPlan.final.text

UserMessagesGained ==
    SelectSeq(SubSeq(session, turn.base0 + 1, Len(session)),
              LAMBDA m : m.role = "user")

\* C13: a turn with a non-empty user message appends exactly one user
\* message with that text and a turn with an empty one appends none, on the
\* direct and on the channel entry path.
C13_OneUserMessage ==
    (turn.entry # "none" /\ turn.result # "error") =>
        IF turn.user_message # ""
        THEN UserMessagesGained = << Message("user", turn.user_message, <<>>, "") >>
        ELSE UserMessagesGained = <<>>

(***************************************************************************)
(* Gateway connection                                                      *)
(***************************************************************************)
\* C14: every request received is eventually answered by a response that
\* carries the id of the request, whatever the method and the outcome.
C14_EveryRequestAnswered ==
    (conn.pc \in {"update_last_used", "validate", "agent_turn", "agent_save"})
        ~> (conn.pc = "responded" /\ resp.id = conn.req.id)

\* C16: when the authorization of a request succeeds, the entry of the
\* presented token has its last-used time set before the handler runs, also
\* when tokens are revoked or registered concurrently.
C16_LastUsedSetOnAuthorization ==
    [][ (conn.pc = "update_last_used" /\ conn'.pc = "validate") =>
            /\ StripBearer(conn.req.signature) \in DOMAIN tokens'
            /\ tokens'[StripBearer(conn.req.signature)].last_used
      ]_vars

\* C17: a send request that names a platform without a registered adapter
\* is answered by a response that does not report ok.
C17_UnknownPlatformNotOk ==
    (/\ conn.pc = "responded"
     /\ conn.handlerRan
     /\ conn.req.method = "send"
     /\ conn.req.params = "unregistered") => ~resp.ok

\* C15: the first frame the server sends on a connection is the response
\* frame with id "hello" and protocol min 1, max 1; no response and no event
\* goes out before it, even if events were published before the handshake.
C15_HelloFirst ==
    ws.frames # <<>> =>
        /\ ws.frames[1].type = "res"
        /\ ws.frames[1].id = "hello"
        /\ ws.frames[1].payload = [protocol |-> [min |-> 1, max |-> 1]]

C15_Witness ==
    /\ Len(ws.frames) >= 2
    /\ ws.frames[1] = HelloFrame
    /\ ws.frames[2].type = "event"
    /\ ws.frames[2].payload.early

(***************************************************************************)
(* Channel messages                                                        *)
(***************************************************************************)
\* C18: when the orchestrator produced a non-empty reply for a channel
\* message, the reply is sent through the adapter of the message's platform
\* with the channel the message was posted in as target.
C18_ReplyToSourceChannel ==
    (chan.pc = "done" /\ chan.invoked /\ chan.turnOk /\ chan.reply # ""
        /\ chan.sendOk) =>
            chan.sent = << Sent(chan.msg.platform, chan.msg.channel, chan.reply) >>

ListsSuppress(cfg, key) ==
    \/ key \in cfg.disabled_channels
    \/ cfg.enabled_channels # {} /\ key \notin cfg.enabled_channels

\* C19: a message whose channel key is on the deny-list, or is missing from
\* a non-empty allow-list, never causes an orchestrator invocation, whatever
\* the mode and the content, on every ingest path.
C19_ListsSuppress ==
    (chan.path # "none"
        /\ chan.pc \in {"turn", "reply", "done"}
        /\ ListsSuppress(chan.used, ChannelKey(chan.msg.platform, chan.msg.channel)))
            => ~chan.invoked

MentionMatches(cfg, content) ==
    \E pattern \in cfg.mention_patterns :
        \/ Contains(content, pattern)
        \/ StartsWithText(content, SelectSeq(pattern, LAMBDA a : a # "@"))

\* C20: in mention mode a message the lists do not suppress is accepted
\* exactly when some pattern is a substring of the content or the content
\* begins with the pattern without its @, on every path that filters.
C20_MentionDecision ==
    (chan.path # "none" /\ chan.pc \in {"get_agent", "turn", "reply", "done"}
        /\ chan.used.mode = "mention"
        /\ ~ListsSuppress(chan.used, chan.key)) =>
            (chan.accepted <=> MentionMatches(chan.used, chan.msg.content))

(***************************************************************************)
(* Properties of the broadcast buses                                       *)
(***************************************************************************)
\* C21: a subscriber of a broadcast bus that fell behind by more than the
\* capacity loses only the overwritten messages: it is still subscribed and
\* everything it has passed over since is what the ring had dropped.
C21_LaggedSubscriberStaysSubscribed ==
    /\ bus.stream.lagged => bus.stream.pc = "open"
    /\ bus.event_rx.lagged => bus.event_rx.pc = "open"

Occurrences(seq, v) == Cardinality({i \in 1..Len(seq) : seq[i] = v})

\* a message still waits for the listener while the stream is open and the
\* ring holds it at or after the stream's cursor
AwaitsListener(m) ==
    /\ bus.stream.pc = "open"
    /\ \E i \in 1..Len(bus.message_tx.sent) :
           /\ i >= bus.stream.next
           /\ bus.message_tx.sent[i] = m

\* C22: every non-bot message an adapter ingested is published as a
\* channel.message event on the gateway's bus exactly once: never twice, and
\* once unless it still waits in the adapter's ring for the listener.
C22_PublishedExactlyOnce ==
    \A m \in 1..bus.ingested :
        /\ Occurrences(bus.published, m) <= 1
        /\ ~AwaitsListener(m) => Occurrences(bus.published, m) = 1

(***************************************************************************)
(* Properties of the connection task                                       *)
(***************************************************************************)
\* C23: once the transport of a connection is closed, its task eventually
\* ends and its subscription to the event bus is dropped, whatever request
\* the connection has in flight.
C23_ClosedConnectionTerminates ==
    (link.transport = "closed") ~> (link.task = "ended" /\ ~link.subscribed)

(***************************************************************************)
(* Properties of concurrent saves                                          *)
(***************************************************************************)
\* C24: a get-or-create that runs while the same id is being saved returns
\* a complete transcript, the one saved before or the one being saved (or a
\* new session when nothing was saved yet): never an error, and never a
\* transcript no save wrote.
C24_LoadSeesCompleteTranscript ==
    \A r \in Requests :
        fs.req[r].pc # "idle" =>
            /\ fs.req[r].loadOk
            /\ fs.req[r].loaded \in fs.written \cup {<<>>}

\* C25: two agent requests on one effective session id that run concurrently
\* end last-writer-wins: when both have completed, the session file is
\* exactly the transcript of the request whose save finished last, and each
\* request was answered with the reply of its own turn.
C25_LastWriterWins ==
    (\A r \in Requests : fs.req[r].pc = "responded" /\ fs.req[r].loadOk) =>
        /\ fs.content = Serialize(fs.req[fs.lastSaved].sess)
        /\ \A r \in Requests : fs.req[r].response = Reply(r)

(***************************************************************************)
(* Properties of cancellation                                              *)
(***************************************************************************)
\* C26: once the interactive UI has set the cancel flag during a turn, the
\* orchestrator issues no further LLM call (so it consumes no further
\* chunks) and dispatches no further tool call for that turn.
C26_CancelStopsTurn ==
    [][ gui.cancel_flag =>
            /\ turn'.llm_calls = turn.llm_calls
            /\ ~(turn.inflight = 0 /\ turn'.inflight # 0)
      ]_vars

(***************************************************************************)
(* Properties of cd                                                        *)
(***************************************************************************)
\* the directory a cd of the agent's exec tool names: its first argument
\* taken against the working directory, or the home directory without one
CdTarget == IF execOp.args = <<>> THEN HomeDir
            ELSE JoinPath(execOp.cwdBefore, execOp.args[1])

\* C27: an exec call with command cd spawns no process; if its target,
\* canonicalized, is an existing directory the session's working directory
\* becomes that path, otherwise the call fails and the working directory is
\* what it was.
C27_CdChangesDirectoryWithoutSpawn ==
    (execOp.executor = "agent" /\ execOp.cmd = <<"cd">>) =>
        /\ execOp.result.spawned = <<>>
        /\ IF ResolvePath(CdTarget) \in Dirs
           THEN /\ cwd = ResolvePath(CdTarget)
                /\ execOp.result.ok /\ execOp.result.success
           ELSE /\ cwd = execOp.cwdBefore
                /\ ~(execOp.result.ok /\ execOp.result.success)

C27_Witness ==
    /\ execOp.executor = "agent"
    /\ execOp.cmd = <<"cd">>
    /\ execOp.args = << <<".", ".">> >>
    /\ execOp.cwdBefore = RootDir
    /\ cwd = ParentPath(RootDir)

(***************************************************************************)
(* Properties of the streaming client                                      *)
(***************************************************************************)
\* C28: the end-of-stream sentinel [DONE] is not given to the caller as an
\* error: every error item the caller has received stands for an event that
\* is a real failure, a transport error or data that does not parse.
C28_SentinelIsNotAnError ==
    \A i \in 1..Len(llm.items) :
        ~llm.items[i].ok =>
            \/ llm.events[i].kind = "failure"
            \/ llm.events[i].data # DoneSentinel

(***************************************************************************)
(* Properties of chunking                                                  *)
(***************************************************************************)
NonEmptyLines(t) == SelectSeq(lines(t), LAMBDA l : l # <<>>)

\* the lines of the chunks, chunk after chunk
RECURSIVE LinesOfChunks(_)
LinesOfChunks(chunks) ==
    IF chunks = <<>> THEN <<>>
    ELSE NonEmptyLines(Head(chunks)) \o LinesOfChunks(Tail(chunks))

\* C29: for every text and positive limit, every chunk of chunk_message has
\* at most `limit` characters, the chunks are cut only at line boundaries, a
\* text within the limit gives one chunk, and send_message sends the chunks
\* in order.
C29_ChunksWithinLimit ==
    outbox.pc # "idle" =>
        /\ \A i \in 1..Len(outbox.chunks) : Len(outbox.chunks[i]) <= outbox.limit
        /\ LinesOfChunks(outbox.chunks) = NonEmptyLines(outbox.message)
        /\ Len(outbox.message) <= outbox.limit => outbox.chunks = <<outbox.message>>
        /\ \E k \in 0..Len(outbox.chunks) : outbox.sent = SubSeq(outbox.chunks, 1, k)

(***************************************************************************)
(* Properties of the skill installer                                       *)
(***************************************************************************)
\* what the trust policy says of the configured source
PolicyAllowsSource ==
    \/ skills.policy = "allow_untrusted"
    \/ skills.policy = "trusted_only" /\ skills.source.trusted
    \/ skills.policy = "local_only" /\ skills.source.kind = "local_dir"

\* C30: a skill is installed only if the trust policy allows its source
\* (local-only: a local directory; trusted-only: trusted=true;
\* allow-untrusted: always), and an install the policy does not allow leaves
\* the skills root as it was.
C30_InstallOnlyIfPolicyAllows ==
    skills.op.outcome # "none" =>
        /\ skills.op.outcome = "installed" => PolicyAllowsSource
        /\ ~PolicyAllowsSource => skills.root = skills.op.rootBefore

C30_Witness ==
    /\ skills.op.outcome = "rejected"
    /\ skills.policy = "trusted_only"
    /\ ~skills.source.trusted
    /\ skills.cache
    /\ skills.root = "old"

\* C31: every install attempt that is not a dry run appends exactly one line
\* to the audit log, whatever its outcome.
C31_OneAuditLinePerAttempt ==
    (skills.op.outcome # "none" /\ ~skills.op.call.dry_run) =>
        skills.audit = skills.op.auditBefore + 1

\* the call got past the resolution of the skill, the policy and the name
\* of the target directory
ReachedTarget ==
    skills.op.outcome \in {"exists", "dry_run", "installed", "io_error"}

\* C32: in dry-run mode the existing-target check, the deletion, the copy
\* and the audit record are all left out and the plan is reported instead,
\* whether or not the target exists and whatever force is: the skills root
\* and the audit log are as before.
C32_DryRunOnlyReportsPlan ==
    (ReachedTarget /\ skills.op.call.dry_run) =>
        /\ skills.op.outcome = "dry_run"
        /\ skills.root = skills.op.rootBefore
        /\ skills.audit = skills.op.auditBefore

\* C33: when the target directory exists the installer changes nothing
\* unless force is set; with force (and no dry run) it deletes the target
\* and copies again, and the install ends with the target holding a
\* complete copy of the skill's source directory.
C33_ForceOverwritesWithCompleteCopy ==
    (ReachedTarget /\ TargetExists(skills.op.rootBefore)) =>
        /\ ~skills.op.call.force =>
              (skills.root = skills.op.rootBefore /\ skills.audit = skills.op.auditBefore)
        /\ (skills.op.call.force /\ ~skills.op.call.dry_run) => skills.root = "new"

\* [A-Za-z0-9_.]+(-[A-Za-z0-9_.]+)* : not empty, made of kept characters,
\* no "-" at either end and no "--"
MatchesDirPattern(t) ==
    /\ t # <<>>
    /\ \A i \in 1..Len(t) : KeptChar(t[i])
    /\ t[1] # "-" /\ t[Len(t)] # "-"
    /\ ~Contains(t, <<"-", "-">>)

\* C34: the name of the target directory of every install, whatever the
\* declared name of the skill, matches [A-Za-z0-9_.]+(-[A-Za-z0-9_.]+)*, and
\* a name that sanitizes to the empty string is rejected, not installed.
C34_TargetDirNameMatchesPattern ==
    /\ ReachedTarget => MatchesDirPattern(skills.op.dir)
    /\ (skills.op.outcome # "none" /\
         \A i \in 1..Len(skills.op.call.name) :
             skills.op.call.name[i] \in {"-", "/", " "}) =>
           /\ skills.op.outcome = "name_error"
           /\ skills.audit = skills.op.auditBefore
           /\ HoldsSkill(skills.root) = HoldsSkill(skills.op.rootBefore)

\* an install whose declared name had characters replaced, runs of "-"
\* coalesced and a "-" trimmed at both ends
C34_Witness ==
    /\ skills.op.outcome = "installed"
    /\ skills.op.call.name = <<"/", "a", " ", "/">>
    /\ skills.op.dir = <<"a">>
    /\ skills.root = "new"


\* C35: a field value written to the audit log with its escaping and read
\* back with the unescaping is exactly the original value, whatever
\* characters it has, and the line read back has exactly the fields written.
C35_AuditFieldRoundTrip ==
    auditlog.pc = "read" =>
        /\ Len(auditlog.records) = 1
        /\ auditlog.records[1].fields =
               << <<<<"skill">>, auditlog.skill>>, <<<<"status">>, <<"installed">>>> >>

\* C36: two channel messages of one source that both pass the trigger filter
\* are run through the orchestrator one after the other on the same session:
\* the second turn starts when the first has saved, and the transcript the
\* second turn saves contains the messages of the first.
C36_SameSourceTurnsRunInOrder ==
    (Spawned("A") /\ Spawned("B")) =>
        /\ fs.req["B"].pc # "idle" => fs.req["A"].pc = "responded"
        /\ (fs.req["B"].pc = "responded" /\ fs.req["B"].loadOk) =>
               Contains(fs.req["B"].sess, TurnMessages("A"))

\* C37: every task that requests the channel-manager mutex (the listener of
\* each platform, the task that sends a reply, the handler of a send request)
\* eventually acquires it, also while listeners wait for messages.
C37_EveryRequesterAcquires ==
    \A t \in MutexTasks : (mutex.pc[t] = "waiting") ~> (mutex.pc[t] = "holding")

\* C38: the directory the installer deletes (with force) and copies into
\* is a strict descendant of the skills root, whatever the name of the
\* skill: never the root itself, its parent or a path outside it.
C38_TargetInsideSkillsRoot ==
    ReachedTarget => TargetPlace(skills.op.dir) = "child"

\* C39: every call of the Discord adapter's on_message returns a stream that
\* is subscribed to the adapter's bus, also when the call comes while the
\* gateway task is publishing a message.
C39_OnMessageSubscribes ==
    bus.stream.pc # "none" => bus.stream.pc # "empty"

\* the completion of a stopped turn t happens in this step while a later
\* turn is running
StaleCompletion(t) ==
    /\ ui.tasks[t].pc = "returned" /\ ui'.tasks[t].pc = "completed"
    /\ ui.tasks[t].stopped
    /\ \E n \in (t + 1)..MaxTurns : ui.tasks[n].pc \in {"running", "returned"}

StoppedMessages(messages) ==
    Cardinality({i \in 1..Len(messages) : messages[i].content = Stopped})

\* the "[Stopped]" messages of the chat shown and of the chats put away
RECURSIVE StoppedStored(_, _)
StoppedStored(u, S) ==
    IF S = {} THEN 0
    ELSE LET i == CHOOSE x \in S : TRUE
         IN StoppedMessages(u.session_messages[i]) + StoppedStored(u, S \ {i})

StoppedShown(u) ==
    StoppedMessages(u.messages) + StoppedStored(u, DOMAIN u.session_messages)

\* C40: when a turn was stopped and a new message sent, the later completion
\* of the stopped turn adds no message to the chat and does not clear the
\* loading state of the new turn; and every stop adds exactly one
\* "[Stopped]" message.
C40_StaleCompletionHasNoEffect ==
    [][ /\ \A t \in 1..MaxTurns :
              StaleCompletion(t) =>
                  (ui'.messages = ui.messages /\ ui'.is_loading = ui.is_loading)
        /\ StoppedShown(ui') > StoppedShown(ui) =>
              (ui'.stops = ui.stops + 1 /\ StoppedShown(ui') = StoppedShown(ui) + 1)
      ]_vars

====
